---- MODULE Spec2Model ----
(***************************************************************************)
(* Anomaly-detection engine: the Normalizer (TimeSeriesProcessor), the     *)
(* detector variants, and the streaming wrappers RealtimeAnomalyDetector   *)
(* (realtime_detector.py) and StreamingDetector (server.py).               *)
(*                                                                         *)
(* Real numbers are exact rationals <<num, den>> with den > 0, reduced.    *)
(* <<0, 0>> stands for Python's None in a numeric field.                   *)
(***************************************************************************)
EXTENDS Integers, Sequences, FiniteSets, TLC

\* ------------------------------------------------------------------ bounds

\* Capacity of the sliding window: window_size / deque(maxlen=...), which the
\* source sets to 100; the model explores a smaller capacity.
WindowSize == 11

\* Calls explored beyond the capacity of the window.
MaxExtra == 2

MaxPoints == WindowSize + MaxExtra

\* At most this many non-baseline values are fed to one window in a run.
MaxOdd == 1

\* server.py: readings in the worker's stream (1000 in the code), and
\* requests the handler thread serves
StreamLen == 10
MaxRequests == 1

\* ------------------------------------------------------- program constants

\* len(self.data_buffer) >= 10
MinPoints == 10

\* ---------------------------------------------------------------- numbers

None == <<0, 0>>

RECURSIVE GCD(_, _)
GCD(a, b) == IF b = 0 THEN a ELSE GCD(b, a % b)

IAbs(n) == IF n < 0 THEN -n ELSE n

RNorm(n, d) ==
    LET g == GCD(IAbs(n), IAbs(d))
        s == IF d < 0 THEN -1 ELSE 1
    IN  IF n = 0 THEN <<0, 1>> ELSE <<s * (n \div g), s * (d \div g)>>

R(n) == <<n, 1>>
RAbs(a) == <<IAbs(a[1]), a[2]>>
RNeg(a) == <<-a[1], a[2]>>
\* common factors are cancelled before multiplying, to keep the products small
RAdd(a, b) ==
    RNorm(a[1] * (b[2] \div GCD(a[2], b[2])) + b[1] * (a[2] \div GCD(a[2], b[2])),
          (a[2] \div GCD(a[2], b[2])) * b[2])
RSub(a, b) == RAdd(a, RNeg(b))
RMul(a, b) ==
    RNorm((a[1] \div GCD(IAbs(a[1]), b[2])) * (b[1] \div GCD(IAbs(b[1]), a[2])),
          (a[2] \div GCD(IAbs(b[1]), a[2])) * (b[2] \div GCD(IAbs(a[1]), b[2])))
RDiv(a, b) ==
    IF b[1] = 0 THEN RNorm(a[1] * b[2], 0)
    ELSE RMul(a, IF b[1] < 0 THEN <<-b[2], -b[1]>> ELSE <<b[2], b[1]>>)

\* a < b, comparing the integer parts first so that large scores do not
\* overflow the cross multiplication.
RLt(a, b) ==
    LET fa == a[1] \div a[2]
        fb == b[1] \div b[2]
    IN  IF fa # fb THEN fa < fb
        ELSE (a[1] % a[2]) * b[2] < (b[1] % b[2]) * a[2]
RGt(a, b) == RLt(b, a)
RLe(a, b) == ~RLt(b, a)
RMax(a, b) == IF RLt(a, b) THEN b ELSE a
RMin(a, b) == IF RLt(b, a) THEN b ELSE a

RECURSIVE ISqrtFrom(_, _)
ISqrtFrom(n, r) == IF (r + 1) * (r + 1) > n THEN r ELSE ISqrtFrom(n, r + 1)
ISqrt(n) == ISqrtFrom(n, 0)

\* np.sqrt: exact on the squares of rationals, otherwise to 1/100.
RSqrtOf(a, rn, rd) ==
    IF rn * rn = a[1] /\ rd * rd = a[2] THEN RNorm(rn, rd)
    ELSE RNorm(ISqrt((a[1] * 10000) \div a[2]), 100)
RSqrt(a) == RSqrtOf(a, ISqrt(a[1]), ISqrt(a[2]))

\* ---------------------------------------------------------- numpy on 1-D

RECURSIVE SeqSum(_)
SeqSum(s) == IF s = <<>> THEN R(0) ELSE RAdd(Head(s), SeqSum(Tail(s)))

RECURSIVE SeqMaxR(_)
SeqMaxR(s) == IF Len(s) = 1 THEN s[1] ELSE RMax(Head(s), SeqMaxR(Tail(s)))

RECURSIVE SeqMinR(_)
SeqMinR(s) == IF Len(s) = 1 THEN s[1] ELSE RMin(Head(s), SeqMinR(Tail(s)))

\* np.mean
Mean(s) == RDiv(SeqSum(s), R(Len(s)))

\* np.std (population standard deviation)
Sq(a) == RMul(a, a)
StdAbout(s, m) == RSqrt(Mean([i \in 1..Len(s) |-> Sq(RSub(s[i], m))]))
Std(s) == StdAbout(s, Mean(s))

\* np.percentile, linear interpolation between the closest ranks
PercentileAt(srt, pos) ==
    LET n == Len(srt)
        lo == pos[1] \div pos[2]
    IN  IF lo + 1 >= n THEN srt[n]
        ELSE RAdd(srt[lo + 1],
                  RMul(RSub(pos, R(lo)), RSub(srt[lo + 2], srt[lo + 1])))
Percentile(s, p) ==
    PercentileAt(SortSeq(s, RLt), RDiv(R(p * (Len(s) - 1)), R(100)))

\* np.median
Median(s) == Percentile(s, 50)

\* collections.deque(maxlen=...).append: the oldest item is dropped when full
DequeAppendKeep(q, x, maxlen) == Append(q, x)
DequeAppend(q, x, maxlen) ==
    IF Len(q) >= maxlen THEN Append(Tail(q), x) ELSE Append(q, x)

\* ------------------------------------------- utils/data_processor.py

\* _get_scaler: anything but "minmax" and "robust" gives a StandardScaler
GetScaler(normalization_method) ==
    [kind |-> IF normalization_method = "minmax" THEN "MinMaxScaler"
              ELSE IF normalization_method = "robust" THEN "RobustScaler"
              ELSE "StandardScaler",
     center |-> None, scale |-> None]

TimeSeriesProcessor(normalization_method) ==
    [normalization_method |-> normalization_method,
     scaler |-> GetScaler(normalization_method),
     fitted |-> FALSE]

\* sklearn replaces a zero scale by 1
HandleZeros(scale) == IF scale[1] = 0 THEN R(1) ELSE scale

\* scaler.fit on one feature
ScalerFit(scaler, data) ==
    IF scaler.kind = "MinMaxScaler"
    THEN [scaler EXCEPT !.center = SeqMinR(data),
                        !.scale = HandleZeros(RSub(SeqMaxR(data), SeqMinR(data)))]
    ELSE IF scaler.kind = "RobustScaler"
    THEN [scaler EXCEPT !.center = Median(data),
                        !.scale = HandleZeros(RSub(Percentile(data, 75),
                                                   Percentile(data, 25)))]
    ELSE [scaler EXCEPT !.center = Mean(data), !.scale = HandleZeros(Std(data))]

\* scaler.transform / scaler.inverse_transform on one feature
ScalerTransform(scaler, data) ==
    [i \in 1..Len(data) |-> RDiv(RSub(data[i], scaler.center), scaler.scale)]
ScalerInverse(scaler, data) ==
    [i \in 1..Len(data) |-> RAdd(RMul(data[i], scaler.scale), scaler.center)]

\* ndarray.squeeze() of an (n, 1) array: 0-d when n = 1, else 1-D
SqueezeNdim(data) == IF Len(data) = 1 THEN 0 ELSE 1

\* normalize, fit=True: scaler.fit_transform, then self.fitted = True
NormalizeFit(proc, data, sc) ==
    [proc |-> [proc EXCEPT !.scaler = sc, !.fitted = TRUE],
     out |-> ScalerTransform(sc, data), ndim |-> SqueezeNdim(data),
     err |-> FALSE]

\* TimeSeriesProcessor.normalize: the processor after the call, the array
\* returned and whether the call raised ValueError.
NormalizeRefit(proc, data, fit) ==
    NormalizeFit(proc, data, ScalerFit(proc.scaler, data))
NormalizeLenient(proc, data, fit) ==
    IF fit \/ ~proc.fitted
    THEN NormalizeFit(proc, data, ScalerFit(proc.scaler, data))
    ELSE [proc |-> proc, out |-> ScalerTransform(proc.scaler, data),
          ndim |-> SqueezeNdim(data), err |-> FALSE]
Normalize(proc, data, fit) ==
    IF fit
    THEN NormalizeFit(proc, data, ScalerFit(proc.scaler, data))
    ELSE IF ~proc.fitted
    THEN [proc |-> proc, out |-> <<>>, ndim |-> 1, err |-> TRUE]
    ELSE [proc |-> proc, out |-> ScalerTransform(proc.scaler, data),
          ndim |-> SqueezeNdim(data), err |-> FALSE]

\* TimeSeriesProcessor.denormalize of an array of ndim dimensions: a 1-D
\* array is reshaped to a column; a 0-d array is handed to
\* inverse_transform as it is, which refuses it, as it refuses every array
\* when the scaler was never fitted.
Denormalize(proc, data, ndim) ==
    IF ~proc.fitted \/ ndim = 0
    THEN [out |-> <<>>, ndim |-> 1, err |-> TRUE]
    ELSE [out |-> ScalerInverse(proc.scaler, data), ndim |-> SqueezeNdim(data),
          err |-> FALSE]

\* ------------------------------------- models/statistical_detector.py

\* 1 / 1e-8, the guard added to the standard deviation
EpsInv == 100000000

StatisticalDetector(threshold, method, window) ==
    [name |-> "StatisticalDetector", threshold |-> threshold,
     is_fitted |-> FALSE, metadata |-> <<>>,
     method |-> method, window |-> window,
     mean |-> None, std |-> None, median |-> None, mad |-> None,
     Q1 |-> None, Q3 |-> None, IQR |-> None]

\* the assignments of fit, given the statistics it computes
StatFitted(det, mean, std, median, mad, Q1, Q3) ==
    [det EXCEPT !.mean = mean, !.std = std, !.median = median,
                !.mad = mad, !.Q1 = Q1, !.Q3 = Q3, !.IQR = RSub(Q3, Q1),
                !.is_fitted = TRUE,
                !.metadata = <<mean, std, median, mad, Q1, Q3, RSub(Q3, Q1)>>]

\* np.median(np.abs(data - self.median))
Mad(data, median) ==
    Median([i \in 1..Len(data) |-> RAbs(RSub(data[i], median))])
StatFitMedian(det, data, median) ==
    StatFitted(det, Mean(data), Std(data), median, Mad(data, median),
               Percentile(data, 25), Percentile(data, 75))

\* StatisticalDetector.fit
StatFit(det, data) == StatFitMedian(det, data, Median(data))

\* a / std with sklearn's guard, a zero std taken for 1
DivUnit(a, std) == RDiv(a, HandleZeros(std))

\* a / (std + 1e-8): on the model's rationals the guard only shows when
\* std = 0, where the quotient is a * 1e8.
DivEps(a, std) == IF std[1] = 0 THEN RMul(a, R(EpsInv)) ELSE RDiv(a, std)

\* np.abs((data - self.mean) / (self.std + 1e-8))
ZScores(det, data) ==
    [i \in 1..Len(data) |-> RAbs(DivEps(RSub(data[i], det.mean), det.std))]

\* np.convolve(data, np.ones(window) / window, mode='same'): the middle
\* max(N, window) entries of the full convolution
RECURSIVE ConvFull(_, _, _, _)
ConvFull(data, window, k, j) ==
    IF j > Len(data) THEN R(0)
    ELSE RAdd(IF k - j >= 0 /\ k - j <= window - 1
              THEN RDiv(data[j], R(window)) ELSE R(0),
              ConvFull(data, window, k, j + 1))
ConvolveSame(data, window) ==
    LET N == Len(data)
        m == IF N < window THEN N ELSE window
        n == IF N < window THEN window ELSE N
    IN  [i \in 1..n |-> ConvFull(data, window, i + ((m - 1) \div 2), 1)]

\* _moving_average: ma[i] = np.mean(data[:i+1]) for the first `window` entries
MovingAverageOf(data, window, conv) ==
    [i \in 1..Len(conv) |->
        IF i <= window
        THEN Mean(SubSeq(data, 1, IF i < Len(data) THEN i ELSE Len(data)))
        ELSE conv[i]]
MovingAverage(data, window) ==
    MovingAverageOf(data, window, ConvolveSame(data, window))

\* np.abs(data - ma) / (self.std + 1e-8); numpy broadcasts a single value
\* against ma and raises on any other difference in length
MovingScores(det, data, ma) ==
    IF Len(ma) # Len(data) /\ Len(data) # 1
    THEN [err |-> TRUE, out |-> <<>>]
    ELSE [err |-> FALSE,
          out |-> [i \in 1..Len(ma) |->
                     DivEps(RAbs(RSub(data[IF Len(data) = 1 THEN 1 ELSE i], ma[i])),
                            det.std)]]

\* an iqr branch whose bounds belong to the outside
IqrScoresStrict(det, data, lower_bound, upper_bound, zs) ==
    [i \in 1..Len(data) |->
        IF RLe(data[i], lower_bound) \/ RLe(upper_bound, data[i])
        THEN zs[i] ELSE R(0)]

\* the iqr branch of score; the bounds are computed by the caller
IqrScores(det, data, lower_bound, upper_bound, zs) ==
    [i \in 1..Len(data) |->
        IF RLt(data[i], lower_bound) \/ RGt(data[i], upper_bound)
        THEN zs[i] ELSE R(0)]

\* a score that takes any other method name for "zscore"
StatScoreDefaulting(det, data) ==
    IF ~det.is_fitted THEN [err |-> TRUE, out |-> <<>>]
    ELSE IF det.method = "iqr"
    THEN [err |-> FALSE,
          out |-> IqrScores(det, data,
                      RSub(det.Q1, RMul(<<3, 2>>, RSub(det.Q3, det.Q1))),
                      RAdd(det.Q3, RMul(<<3, 2>>, RSub(det.Q3, det.Q1))),
                      ZScores(det, data))]
    ELSE IF det.method = "moving_average"
    THEN MovingScores(det, data, MovingAverage(data, det.window))
    ELSE [err |-> FALSE, out |-> ZScores(det, data)]

\* StatisticalDetector.score
StatScore(det, data) ==
    IF ~det.is_fitted THEN [err |-> TRUE, out |-> <<>>]
    ELSE IF det.method = "zscore"
    THEN [err |-> FALSE, out |-> ZScores(det, data)]
    ELSE IF det.method = "iqr"
    THEN [err |-> FALSE,
          out |-> IqrScores(det, data,
                      RSub(det.Q1, RMul(<<3, 2>>, RSub(det.Q3, det.Q1))),
                      RAdd(det.Q3, RMul(<<3, 2>>, RSub(det.Q3, det.Q1))),
                      ZScores(det, data))]
    ELSE IF det.method = "moving_average"
    THEN MovingScores(det, data, MovingAverage(data, det.window))
    ELSE [err |-> TRUE, out |-> <<>>]

\* scores > self.threshold
ExceedsOrEquals(score, threshold) == RLe(threshold, score)
Exceeds(score, threshold) == RGt(score, threshold)

\* (scores > self.threshold).astype(int)
Flags(sc, threshold) ==
    IF sc.err THEN [err |-> TRUE, out |-> <<>>]
    ELSE [err |-> FALSE,
          out |-> [i \in 1..Len(sc.out) |->
                     IF Exceeds(sc.out[i], threshold) THEN 1 ELSE 0]]

\* StatisticalDetector.predict
StatPredict(det, data) == Flags(StatScore(det, data), det.threshold)

\* ---------------------------------- models/isolation_forest_detector.py

\* The fitted sklearn IsolationForest is kept as what decides its answers on
\* one feature: the centre of the training sample and the distance `cut`
\* beyond which a point is isolated early.  score_samples is negative, lower
\* for outliers; offset_ separates the two.
IFInlier == <<-2, 5>>
IFOutlier == <<-7, 10>>
IFOffset == <<-1, 2>>

IsolationForestDetector(contamination) ==
    [name |-> "IsolationForest", threshold |-> R(0), is_fitted |-> FALSE,
     metadata |-> <<>>, contamination |-> contamination,
     model |-> [fitted |-> FALSE, center |-> None, cut |-> None]]

\* IsolationForestDetector.fit; `cut` is the forest sklearn grows
IFFit(det, data, cut) ==
    [det EXCEPT !.model = [fitted |-> TRUE, center |-> Mean(data), cut |-> cut],
                !.is_fitted = TRUE,
                !.metadata = <<det.contamination, R(1), R(Len(data))>>]

\* self.model.score_samples
IFScoreSamples(model, x) ==
    IF RGt(RAbs(RSub(x, model.center)), model.cut) THEN IFOutlier ELSE IFInlier

\* IsolationForestDetector.score
IFScore(det, data) ==
    IF ~det.is_fitted THEN [err |-> TRUE, out |-> <<>>]
    ELSE [err |-> FALSE,
          out |-> [i \in 1..Len(data) |-> RNeg(IFScoreSamples(det.model, data[i]))]]

\* IsolationForestDetector.predict: model.predict is -1 where
\* score_samples - offset_ < 0
IFPredict(det, data) ==
    IF ~det.is_fitted THEN [err |-> TRUE, out |-> <<>>]
    ELSE [err |-> FALSE,
          out |-> [i \in 1..Len(data) |->
                     IF RLt(RSub(IFScoreSamples(det.model, data[i]), IFOffset), R(0))
                     THEN 1 ELSE 0]]

\* what a call gives back besides a value: None, or an exception
NoVerdict == [kind |-> "None"]
Raised == [kind |-> "raise"]

\* ------------------------------------------- models/lof_detector.py

\* The fitted sklearn LocalOutlierFactor (novelty=True), kept like the
\* forest: score_samples is -1 inside the training neighbourhood, -3 beyond
\* `cut`; offset_ separates the two.
LOFInlier == <<-1, 1>>
LOFOutlier == <<-3, 1>>
LOFOffset == <<-3, 2>>

LOFDetector(n_neighbors, contamination) ==
    [name |-> "LocalOutlierFactor", threshold |-> R(0), is_fitted |-> FALSE,
     metadata |-> <<>>, n_neighbors |-> n_neighbors,
     contamination |-> contamination,
     model |-> [fitted |-> FALSE, center |-> None, cut |-> None]]

\* LOFDetector.fit.  sklearn lowers n_neighbors to n_samples - 1 (at least 1)
\* and then asks every training sample for that many neighbours besides
\* itself: on a single sample self.model.fit raises, before is_fitted is set.
LOFFit(det, data, cut) ==
    IF Len(data) < 2 THEN [err |-> TRUE, det |-> det]
    ELSE [err |-> FALSE,
          det |-> [det EXCEPT
                     !.model = [fitted |-> TRUE, center |-> Mean(data), cut |-> cut],
                     !.is_fitted = TRUE,
                     !.metadata = <<R(det.n_neighbors), det.contamination, R(1)>>]]

\* self.model.score_samples
LOFScoreSamples(model, x) ==
    IF RGt(RAbs(RSub(x, model.center)), model.cut) THEN LOFOutlier ELSE LOFInlier

\* (scores - scores.min()) / (scores.max() - scores.min() + 1e-8)
MinMaxEps(scores, lo, hi) ==
    [i \in 1..Len(scores) |->
        RDiv(RSub(scores[i], lo), RAdd(RSub(hi, lo), <<1, EpsInv>>))]

\* LOFDetector.score (min and max of an empty array raise)
LOFScoreOf(scores) ==
    IF scores = <<>> THEN [err |-> TRUE, out |-> <<>>]
    ELSE [err |-> FALSE, out |-> MinMaxEps(scores, SeqMinR(scores), SeqMaxR(scores))]
LOFScore(det, data) ==
    IF ~det.is_fitted THEN [err |-> TRUE, out |-> <<>>]
    ELSE LOFScoreOf([i \in 1..Len(data) |-> RNeg(LOFScoreSamples(det.model, data[i]))])

\* LOFDetector.predict: model.predict is -1 where score_samples - offset_ < 0
LOFPredict(det, data) ==
    IF ~det.is_fitted THEN [err |-> TRUE, out |-> <<>>]
    ELSE [err |-> FALSE,
          out |-> [i \in 1..Len(data) |->
                     IF RLt(RSub(LOFScoreSamples(det.model, data[i]), LOFOffset), R(0))
                     THEN 1 ELSE 0]]

\* ---------------------------------------- models/ensemble_detector.py

\* weights = [w / weight_sum for w in self.weights]
NormalizeWeights(weights, weight_sum) ==
    [i \in 1..Len(weights) |-> RDiv(weights[i], weight_sum)]

\* EnsembleDetector.__init__; weights = None asks for equal weights.  The
\* threshold field is the base class default.
EnsembleWith(voting, weights) ==
    [name |-> "EnsembleDetector", threshold |-> <<5, 2>>, is_fitted |-> FALSE,
     metadata |-> <<>>, voting |-> voting,
     weights |-> NormalizeWeights(weights, SeqSum(weights)),
     detectors |-> <<StatisticalDetector(R(3), "zscore", 10),
                     IsolationForestDetector(<<1, 20>>),
                     LOFDetector(20, <<1, 20>>)>>]
\* The weights argument is <<>> for None and <<list>> for a list.
EnsembleDetector(voting, weights) ==
    EnsembleWith(voting, IF weights = <<>> THEN <<R(1), R(1), R(1)>>
                         ELSE weights[1])

\* EnsembleDetector.fit: each member is fitted inside try/except, so a member
\* whose fit raises stays as it was; is_fitted is set in every case.
EnsembleFit(det, data, cut_if, cut_lof) ==
    [det EXCEPT
       !.detectors = <<StatFit(det.detectors[1], data),
                       IFFit(det.detectors[2], data, cut_if),
                       LOFFit(det.detectors[3], data, cut_lof).det>>,
       !.is_fitted = TRUE,
       !.metadata = <<det.voting, Len(det.detectors), det.weights>>]

\* predict and score of a member, by its class
MemberPredict(m, data) ==
    IF m.name = "StatisticalDetector" THEN StatPredict(m, data)
    ELSE IF m.name = "IsolationForest" THEN IFPredict(m, data)
    ELSE LOFPredict(m, data)
MemberScore(m, data) ==
    IF m.name = "StatisticalDetector" THEN StatScore(m, data)
    ELSE IF m.name = "IsolationForest" THEN IFScore(m, data)
    ELSE LOFScore(m, data)

\* the members whose call did not raise (try ... except: continue)
Survivors(results) ==
    {j \in 1..Len(results) : ~results[j].err}

\* np.sum(predictions, axis=0) / len(predictions)
VotesOverAll(predictions, among, i) ==
    RDiv(R(Cardinality({j \in among : predictions[j].out[i] = 1})),
         R(Len(predictions)))
VotesOver(predictions, among, i) ==
    RDiv(R(Cardinality({j \in among : predictions[j].out[i] = 1})),
         R(Cardinality(among)))

\* the majority branch of score, given the members' predictions
MajorityScoresAlarm(predictions, among, n) ==
    IF among = {} THEN [i \in 1..n |-> R(1)]
    ELSE [i \in 1..n |-> VotesOver(predictions, among, i)]
MajorityScores(predictions, among, n) ==
    IF among = {} THEN [i \in 1..n |-> R(0)]
    ELSE [i \in 1..n |-> VotesOver(predictions, among, i)]

\* (scores - scores.min()) / (scores.max() - scores.min()) when max > min
MinMax(scores, lo, hi) ==
    IF RGt(hi, lo)
    THEN [i \in 1..Len(scores) |-> RDiv(RSub(scores[i], lo), RSub(hi, lo))]
    ELSE scores

\* the weighted branch of score: zip(self.detectors, self.weights) pairs as
\* many members as there are weights; a member that raises adds nothing
RECURSIVE WeightedScores(_, _, _, _)
WeightedScores(members, weights, data, acc) ==
    IF members = <<>> \/ weights = <<>> THEN acc
    ELSE WeightedScores(Tail(members), Tail(weights), data,
           IF MemberScore(Head(members), data).err \/ data = <<>> THEN acc
           ELSE [i \in 1..Len(data) |->
                   RAdd(acc[i],
                        RMul(Head(weights),
                             MinMax(MemberScore(Head(members), data).out,
                                    SeqMinR(MemberScore(Head(members), data).out),
                                    SeqMaxR(MemberScore(Head(members), data).out))[i]))])

\* EnsembleDetector.score: no test of is_fitted
EnsembleScore(det, data) ==
    IF det.voting = "majority"
    THEN [err |-> FALSE,
          out |-> MajorityScores(
                    [j \in 1..Len(det.detectors) |-> MemberPredict(det.detectors[j], data)],
                    Survivors([j \in 1..Len(det.detectors) |->
                                 MemberPredict(det.detectors[j], data)]),
                    Len(data))]
    ELSE [err |-> FALSE,
          out |-> WeightedScores(det.detectors, det.weights, data,
                                 [i \in 1..Len(data) |-> R(0)])]

\* the threshold predict compares with: 0.5 if majority else 0.6
EnsembleCut(det) == IF det.voting = "majority" THEN <<1, 2>> ELSE <<3, 5>>

\* EnsembleDetector.predict
EnsemblePredict(det, data) == Flags(EnsembleScore(det, data), EnsembleCut(det))

\* ------------------------------------------- models/detector_base.py

\* fit, score and predict of any detector, by its class
Fit(det, data, cut, cut_lof) ==
    IF det.name = "StatisticalDetector" THEN [err |-> FALSE, det |-> StatFit(det, data)]
    ELSE IF det.name = "IsolationForest" THEN [err |-> FALSE, det |-> IFFit(det, data, cut)]
    ELSE IF det.name = "LocalOutlierFactor" THEN LOFFit(det, data, cut_lof)
    ELSE [err |-> FALSE, det |-> EnsembleFit(det, data, cut, cut_lof)]
Score(det, data) ==
    IF det.name = "EnsembleDetector" THEN EnsembleScore(det, data)
    ELSE MemberScore(det, data)
Predict(det, data) ==
    IF det.name = "EnsembleDetector" THEN EnsemblePredict(det, data)
    ELSE MemberPredict(det, data)

\* What a caller may hand to fit: the ndarray the signature asks for, a
\* plain list, or None.  numpy's functions take a list, so
\* StatisticalDetector.fit works on one, while data.ndim raises
\* AttributeError in the other two; on None every fit raises before it
\* assigns anything.
ArgForms == {"ndarray", "list", "None"}

\* fit of a detector that is not an ensemble, on an argument of that form
MemberFitAs(m, form, data, cut) ==
    IF form = "None" \/ (form = "list" /\ m.name # "StatisticalDetector")
    THEN [err |-> TRUE, det |-> m]
    ELSE Fit(m, data, cut, cut)

\* EnsembleDetector.fit on an argument of that form: try: detector.fit(data)
\* except Exception: print(...), for each member in turn
EnsembleFitStrict(det, form, data, cut_if, cut_lof) ==
    IF \E j \in 1..Len(det.detectors) :
           MemberFitAs(det.detectors[j], form, data, cut_if).err
    THEN det
    ELSE EnsembleFit(det, data, cut_if, cut_lof)
EnsembleFitAs(det, form, data, cut_if, cut_lof) ==
    [det EXCEPT
       !.detectors = <<MemberFitAs(det.detectors[1], form, data, cut_if).det,
                       MemberFitAs(det.detectors[2], form, data, cut_if).det,
                       MemberFitAs(det.detectors[3], form, data, cut_lof).det>>,
       !.is_fitted = TRUE,
       !.metadata = <<det.voting, Len(det.detectors), det.weights>>]

\* detector.fit(data) for any detector and any form of argument
FitAs(det, form, data, cut, cut_lof) ==
    IF det.name = "EnsembleDetector"
    THEN [err |-> FALSE, det |-> EnsembleFitAs(det, form, data, cut, cut_lof)]
    ELSE MemberFitAs(det, form, data, IF det.name = "LocalOutlierFactor"
                                       THEN cut_lof ELSE cut)

\* the dictionary predict_with_scores returns
ScoredResult(predictions, scores, threshold) ==
    IF predictions.err \/ scores.err THEN Raised
    ELSE [kind |-> "result", predictions |-> predictions.out,
          scores |-> scores.out, threshold |-> threshold,
          anomaly_count |-> SeqSum([i \in 1..Len(predictions.out) |->
                                      R(predictions.out[i])]),
          anomaly_rate |-> RDiv(SeqSum([i \in 1..Len(predictions.out) |->
                                          R(predictions.out[i])]),
                                R(Len(predictions.out)))]

\* confidence = np.abs(scores - 0.5) * 2, which the ensemble's result adds
Confidence(scores) ==
    [i \in 1..Len(scores) |-> RMul(RAbs(RSub(scores[i], <<1, 2>>)), R(2))]
EnsembleResult(r) ==
    IF r = Raised THEN r
    ELSE [kind |-> "result", predictions |-> r.predictions,
          scores |-> r.scores, threshold |-> r.threshold,
          anomaly_count |-> r.anomaly_count, anomaly_rate |-> r.anomaly_rate,
          confidence |-> Confidence(r.scores)]

\* AnomalyDetector.predict_with_scores, and EnsembleDetector's override,
\* which does not test is_fitted and reports 0.5 or 0.6
PredictWithScores(det, data) ==
    IF det.name = "EnsembleDetector"
    THEN EnsembleResult(ScoredResult(EnsemblePredict(det, data),
                                     EnsembleScore(det, data),
                                     EnsembleCut(det)))
    ELSE IF ~det.is_fitted THEN Raised
    ELSE ScoredResult(Predict(det, data), Score(det, data), det.threshold)

\* AnomalyDetector.set_threshold
\* a set_threshold that discards the fit, as a constructor would
SetThresholdAnew(det, threshold) ==
    [det EXCEPT !.threshold = threshold, !.is_fitted = FALSE, !.metadata = <<>>]
SetThreshold(det, threshold) == [det EXCEPT !.threshold = threshold]

\* ------------------------------------ realtime_detector.py / server.py

RealtimeAnomalyDetector(window_size) ==
    [window_size |-> window_size,
     data_buffer |-> <<>>, predictions_buffer |-> <<>>,
     scores_buffer |-> <<>>, timestamps |-> <<>>,
     processor |-> TimeSeriesProcessor("standard"),
     detector |-> StatisticalDetector(<<5, 2>>, "zscore", 10),
     detector_if |-> IsolationForestDetector(<<2, 25>>),
     is_trained |-> FALSE, anomaly_count |-> 0, total_points |-> 0]

StreamingDetector(source_name) ==
    [source_name |-> source_name,
     data_buffer |-> <<>>,
     processor |-> TimeSeriesProcessor("standard"),
     detector |-> StatisticalDetector(<<5, 2>>, "zscore", 10),
     detector_if |-> IsolationForestDetector(<<2, 25>>),
     is_trained |-> FALSE, total_points |-> 0, anomaly_count |-> 0]

\* train, after normalized = self.processor.normalize(initial_data, fit=True)
TrainOn(self, n, cut) ==
    [self EXCEPT !.processor = n.proc,
                 !.detector = StatFit(self.detector, n.out),
                 !.detector_if = IFFit(self.detector_if, n.out, cut),
                 !.is_trained = TRUE]

\* RealtimeAnomalyDetector.train and StreamingDetector.train (same body)
Train(self, data, cut) ==
    TrainOn(self, Normalize(self.processor, data, TRUE), cut)

\* self.total_points += 1
CountPointTwice(n) == n + 2
CountPoint(n) == n + 1

\* len(self.data_buffer) >= 10 and self.is_trained
\* (server.py: not (not self.is_trained or len(self.data_buffer) < 10))
ReadyEither(self) == Len(self.data_buffer) >= MinPoints \/ self.is_trained
Ready(self) == Len(self.data_buffer) >= MinPoints /\ self.is_trained

\* The last position of the two predictions and the two scores
LastOf(n, ps, pi, ss, si) ==
    IF n.err \/ ps.err \/ pi.err \/ ss.err \/ si.err
    THEN [err |-> TRUE, proc |-> n.proc, pred_stat |-> 0, pred_if |-> 0,
          score_stat |-> R(0), score_if |-> R(0)]
    ELSE [err |-> FALSE, proc |-> n.proc,
          pred_stat |-> ps.out[Len(ps.out)], pred_if |-> pi.out[Len(pi.out)],
          score_stat |-> ss.out[Len(ss.out)], score_if |-> si.out[Len(si.out)]]

\* predict and score of both detectors on the normalized buffer
DetectOn(self, n) ==
    LastOf(n, StatPredict(self.detector, n.out),
           IFPredict(self.detector_if, n.out),
           StatScore(self.detector, n.out),
           IFScore(self.detector_if, n.out))

\* The scoring both wrappers run on the whole buffer:
\* normalized = self.processor.normalize(data_array, fit=False), ...
Detect(self) ==
    DetectOn(self, Normalize(self.processor, self.data_buffer, FALSE))

\* ensemble_pred = 1 if (pred_stat + pred_if) >= 1 else 0
EnsemblePredBoth(d) == IF d.pred_stat + d.pred_if >= 2 THEN 1 ELSE 0
EnsemblePred(d) == IF d.pred_stat + d.pred_if >= 1 THEN 1 ELSE 0

\* add_point from "Ensemble voting" on
AddPointVerdict(s1, d, value, timestamp) ==
    IF d.err
    THEN [self |-> [s1 EXCEPT !.processor = d.proc], ret |-> Raised]
    ELSE [self |-> [s1 EXCEPT
             !.processor = d.proc,
             !.predictions_buffer =
                 DequeAppend(@, EnsemblePred(d), s1.window_size),
             !.scores_buffer =
                 DequeAppend(@, RMax(d.score_stat, d.score_if), s1.window_size),
             !.anomaly_count = IF EnsemblePred(d) = 1 THEN @ + 1 ELSE @],
          ret |-> [kind |-> "verdict", value |-> value,
                   timestamp |-> timestamp,
                   is_anomaly |-> EnsemblePred(d),
                   score |-> RMax(d.score_stat, d.score_if),
                   score_stat |-> d.score_stat,
                   score_if |-> d.score_if]]

\* add_point after the appends and the increment
AddPointScored(s1, value, timestamp) ==
    IF Ready(s1) THEN AddPointVerdict(s1, Detect(s1), value, timestamp)
    ELSE [self |-> s1, ret |-> NoVerdict]

\* RealtimeAnomalyDetector.add_point: the object after the call and what
\* the call returned.
AddPoint(self, value, timestamp) ==
    AddPointScored([self EXCEPT
                      !.data_buffer = DequeAppend(@, value, self.window_size),
                      !.timestamps = DequeAppend(@, timestamp, self.window_size),
                      !.total_points = CountPoint(@)],
                   value, timestamp)

\* max(self.total_points, 1)
AtLeastOne(n) == IF n > 1 THEN n ELSE 1

\* RealtimeAnomalyDetector.get_stats (uptime, a clock reading, left out)
RealtimeStats(self) ==
    IF Len(self.predictions_buffer) = 0 THEN NoVerdict
    ELSE [kind |-> "stats",
          total_points |-> self.total_points,
          anomalies |-> self.anomaly_count,
          anomaly_rate |-> RDiv(R(self.anomaly_count),
                                R(AtLeastOne(self.total_points))),
          window_size |-> Len(self.data_buffer),
          avg_score |-> IF self.scores_buffer # <<>>
                        THEN Mean(self.scores_buffer) ELSE R(0),
          max_score |-> IF self.scores_buffer # <<>>
                        THEN SeqMaxR(self.scores_buffer) ELSE R(0),
          min_value |-> SeqMinR(self.data_buffer),
          max_value |-> SeqMaxR(self.data_buffer),
          mean_value |-> Mean(self.data_buffer)]

\* sse_events = deque(maxlen=1000); the model explores a smaller capacity
SseEventsMax == 4

\* a process that counts every verdict as an anomaly
ProcessVerdictCounting(s1, d, value) ==
    IF d.err
    THEN [self |-> [s1 EXCEPT !.processor = d.proc], ret |-> Raised,
          rows |-> <<>>, events |-> <<>>]
    ELSE [self |-> [s1 EXCEPT !.processor = d.proc,
                              !.anomaly_count = @ + 1],
          ret |-> [kind |-> "verdict", value |-> value,
                   is_anomaly |-> EnsemblePred(d),
                   score |-> RMax(d.score_stat, d.score_if)],
          rows |-> <<[source |-> s1.source_name, value |-> value,
                      is_anomaly |-> EnsemblePred(d),
                      score |-> RMax(d.score_stat, d.score_if)]>>,
          events |-> <<>>]

\* process from "is_anomaly = ..." on: the counter, the row for
\* store_data_point, the events of create_alert and of process itself
ProcessVerdict(s1, d, value) ==
    IF d.err
    THEN [self |-> [s1 EXCEPT !.processor = d.proc], ret |-> Raised,
          rows |-> <<>>, events |-> <<>>]
    ELSE [self |-> [s1 EXCEPT
             !.processor = d.proc,
             !.anomaly_count = IF EnsemblePred(d) = 1 THEN @ + 1 ELSE @],
          ret |-> [kind |-> "verdict", value |-> value,
                   is_anomaly |-> EnsemblePred(d),
                   score |-> RMax(d.score_stat, d.score_if)],
          rows |-> <<[source |-> s1.source_name, value |-> value,
                      is_anomaly |-> EnsemblePred(d),
                      score |-> RMax(d.score_stat, d.score_if)]>>,
          events |-> IF EnsemblePred(d) = 1
                     THEN <<[type |-> "alert", source |-> s1.source_name,
                             value |-> value],
                            [type |-> "anomaly", source |-> s1.source_name,
                             value |-> value,
                             score |-> RMax(d.score_stat, d.score_if)]>>
                     ELSE <<>>]

\* process after the append and the increment
ProcessScored(s1, value) ==
    IF ~Ready(s1)
    THEN [self |-> s1, ret |-> NoVerdict, rows |-> <<>>, events |-> <<>>]
    ELSE ProcessVerdict(s1, Detect(s1), value)

\* StreamingDetector.process: the object after the call, what the call
\* returned, and the rows and events it produced.
Process(self, value) ==
    ProcessScored([self EXCEPT
                     !.data_buffer = DequeAppend(@, value, WindowSize),
                     !.total_points = CountPoint(@)],
                  value)

\* StreamingDetector.get_stats
StreamingStats(self) ==
    [kind |-> "stats",
     source |-> self.source_name,
     total_points |-> self.total_points,
     anomalies |-> self.anomaly_count,
     anomaly_rate |-> RDiv(R(self.anomaly_count),
                           R(AtLeastOne(self.total_points))),
     is_trained |-> self.is_trained,
     buffer_size |-> Len(self.data_buffer)]

\* ------------------------------------------------------------ the inputs

\* Values fed to a window: a baseline reading and a spike.
Baseline == R(10)
Spike == R(20)
Values == {Baseline, Spike}

\* Training batches: readings around the baseline with standard deviation
\* 2 and 6.
TrainSets ==
    {<<R(8), R(12), R(8), R(12)>>, <<R(4), R(16), R(4), R(16)>>}

\* Forests sklearn may grow: a tight one and a loose one.
IFCuts == {R(1), R(6)}

\* Batches a detector of models/ is fitted on: a training batch and a
\* single reading.
FitSets == {<<R(8), R(12), R(8), R(12)>>, <<Spike>>}

\* Data a detector is asked about.
TestSets == {<<R(18), Spike>>, <<Spike>>, <<Baseline, R(12)>>}

\* Arrays handed to a TimeSeriesProcessor, and the normalization_method
\* arguments it is created with ("zscore" is none of the documented three).
ProcData ==
    TrainSets \cup {<<Spike>>, <<R(16), Spike>>, <<Baseline, Baseline>>}
ProcMethods == {"standard", "minmax", "robust", "zscore"}

\* The threshold passed to set_threshold.
Thresholds == {<<1, 2>>}

\* The detectors of models/ as their constructors leave them.
\* Besides the defaults: the other two scoring methods (with a window the
\* test data can fill), a method name and a voting mode that are none of
\* the documented ones, and two weights for three members.
Detectors ==
    {StatisticalDetector(<<5, 2>>, "zscore", 10),
     StatisticalDetector(<<5, 2>>, "iqr", 10),
     StatisticalDetector(<<5, 2>>, "moving_average", 2),
     StatisticalDetector(<<5, 2>>, "median", 10),
     IsolationForestDetector(<<1, 10>>),
     LOFDetector(20, <<1, 20>>),
     EnsembleDetector("majority", <<>>),
     EnsembleDetector("weighted", <<>>),
     EnsembleDetector("weighted", << <<R(1), R(1)>> >>),
     EnsembleDetector("average", <<>>)}

\* ===================================================================
\* One window driven by one thread: realtime_detector.py's monitoring
\* loops, and a StreamingDetector of server.py used by one caller.
\* ===================================================================

VARIABLES
    cls,          \* the class of the window under test
    obj,          \* the window object
    ret,          \* what the last call returned
    op,           \* the last call made
    history,      \* every value passed to add_point / process, in order
    sse_events,   \* server.py: the SSE event buffer
    data_points,  \* server.py: rows inserted by store_data_point
    detectors,    \* server.py: the registry, key -> StreamingDetector
    threads,      \* server.py: the worker thread and the request handler
    stream_indices, \* server.py: the worker's position in each stream
    calls,        \* process calls made on each registry entry
    det,          \* models/: a detector used directly
    arg           \* models/: the data passed to the last call on det

seqVars == <<cls, obj, ret, op, history, sse_events, data_points>>
seqVars_but_ret_op == <<cls, obj, history, sse_events, data_points>>
serverVars == <<detectors, threads, stream_indices, calls>>

libVars == <<det, arg>>

vars == <<seqVars, serverVars, libVars>>

OddCount(h) == Cardinality({i \in 1..Len(h) : h[i] # Baseline})

RECURSIVE AppendAll(_, _, _)
AppendAll(q, items, maxlen) ==
    IF items = <<>> THEN q
    ELSE AppendAll(DequeAppend(q, Head(items), maxlen), Tail(items), maxlen)

SeqInit ==
    /\ cls \in {"RealtimeAnomalyDetector", "StreamingDetector"}
    /\ obj = IF cls = "RealtimeAnomalyDetector"
             THEN RealtimeAnomalyDetector(WindowSize)
             ELSE StreamingDetector("CPU_Usage")
    /\ ret = NoVerdict
    /\ op = "init"
    /\ history = <<>>
    /\ sse_events = <<>>
    /\ data_points = <<>>
    /\ detectors = <<>>
    /\ threads = <<>>
    /\ stream_indices = <<>>
    /\ calls = <<>>
    /\ det = NoVerdict
    /\ arg = <<>>

\* detector.train(initial_data); each program trains a window once
RT_Train ==
    /\ cls = "RealtimeAnomalyDetector"
    /\ ~obj.is_trained
    /\ \E data \in TrainSets, cut \in IFCuts : obj' = Train(obj, data, cut)
    /\ ret' = NoVerdict
    /\ op' = "train"
    /\ UNCHANGED <<cls, history, sse_events, data_points, serverVars, libVars>>

\* result = detector.add_point(value)
RT_AddPoint ==
    /\ cls = "RealtimeAnomalyDetector"
    /\ Len(history) < MaxPoints
    /\ \E value \in Values :
         /\ OddCount(Append(history, value)) <= MaxOdd
         /\ \E r \in {AddPoint(obj, value, Len(history) + 1)} :
                /\ obj' = r.self
                /\ ret' = r.ret
         /\ history' = Append(history, value)
    /\ op' = "add_point"
    /\ UNCHANGED <<cls, sse_events, data_points, serverVars, libVars>>

\* stats = detector.get_stats()
RT_GetStatsDraining ==
    /\ cls = "RealtimeAnomalyDetector"
    /\ ret' = RealtimeStats(obj)
    /\ op' = "get_stats"
    /\ obj' = [obj EXCEPT !.scores_buffer = <<>>]
    /\ UNCHANGED <<cls, history, sse_events, data_points, serverVars, libVars>>
RT_GetStats ==
    /\ cls = "RealtimeAnomalyDetector"
    /\ ret' = RealtimeStats(obj)
    /\ op' = "get_stats"
    /\ UNCHANGED <<cls, obj, history, sse_events, data_points, serverVars, libVars>>

\* detectors[key].train(data)
SD_Train ==
    /\ cls = "StreamingDetector"
    /\ ~obj.is_trained
    /\ \E data \in TrainSets, cut \in IFCuts : obj' = Train(obj, data, cut)
    /\ ret' = NoVerdict
    /\ op' = "train"
    /\ UNCHANGED <<cls, history, sse_events, data_points, serverVars, libVars>>

\* result = detectors[key].process(value)
SD_Process ==
    /\ cls = "StreamingDetector"
    /\ Len(history) < MaxPoints
    /\ \E value \in Values :
         /\ OddCount(Append(history, value)) <= MaxOdd
         /\ \E r \in {Process(obj, value)} :
                /\ obj' = r.self
                /\ ret' = r.ret
                /\ data_points' = data_points \o r.rows
                /\ sse_events' = AppendAll(sse_events, r.events, SseEventsMax)
         /\ history' = Append(history, value)
    /\ op' = "process"
    /\ UNCHANGED <<cls, serverVars, libVars>>

\* detectors[source].get_stats()
SD_GetStats ==
    /\ cls = "StreamingDetector"
    /\ ret' = StreamingStats(obj)
    /\ op' = "get_stats"
    /\ UNCHANGED <<cls, obj, history, sse_events, data_points, serverVars, libVars>>

SeqNext ==
    \/ RT_Train
    \/ RT_AddPoint
    \/ RT_GetStats
    \/ SD_Train
    \/ SD_Process
    \/ SD_GetStats

Init == SeqInit
Next == SeqNext
Spec == Init /\ [][Next]_vars


\* ===================================================================
\* Properties of one window driven by one thread (Spec)
\* ===================================================================

Calls == {"add_point", "process"}

\* The capacity of the window under test
Capacity == IF cls = "RealtimeAnomalyDetector" THEN obj.window_size ELSE WindowSize

Min2(a, b) == IF a < b THEN a ELSE b

\* C1: after n add_point/process calls the raw-value buffer holds exactly
\* min(n, W) values, never more than W, and they are the most recent
\* min(n, W) values in arrival order.
C1_BufferIsMostRecent ==
    /\ Len(obj.data_buffer) = Min2(Len(history), Capacity)
    /\ Len(obj.data_buffer) <= Capacity
    /\ obj.data_buffer =
         SubSeq(history, Len(history) - Min2(Len(history), Capacity) + 1,
                Len(history))

\* The spike arrived first and has been evicted from a full window.
C1_Witness ==
    /\ Len(history) > Capacity
    /\ history[1] = Spike
    /\ Len(obj.data_buffer) = Capacity
    /\ \A i \in 1..Len(obj.data_buffer) : obj.data_buffer[i] = Baseline

\* C2: add_point / process return None exactly when, after the append, the
\* buffer holds fewer than 10 values or train never completed; every other
\* call returns one verdict whose value is the value just added.
C2_VerdictIffReady ==
    op \in Calls =>
        /\ (ret = NoVerdict) <=>
               (Len(obj.data_buffer) < MinPoints \/ ~obj.is_trained)
        /\ ret # NoVerdict =>
               /\ ret.kind = "verdict"
               /\ ret.value = history[Len(history)]

\* A verdict for a spike, returned by process on a trained window.
C2_Witness ==
    /\ op = "process"
    /\ ret.kind = "verdict"
    /\ ret.value = Spike
    /\ Len(obj.data_buffer) >= MinPoints

\* C8: once train has completed, add_point / process change neither the
\* normalizer's parameters and fitted flag nor the fitted state of either
\* detector.
C8_FittedStateFrozen ==
    [][(obj.is_trained /\ op' \in Calls) =>
          /\ obj'.processor = obj.processor
          /\ obj'.detector = obj.detector
          /\ obj'.detector_if = obj.detector_if]_vars

\* A verdict computed on a full window whose values differ from the batch
\* the normalizer was fitted on.
C8_Witness ==
    /\ op \in Calls
    /\ ret.kind = "verdict"
    /\ obj.processor.fitted
    /\ Len(obj.data_buffer) = Capacity
    /\ obj.processor.scaler.scale # HandleZeros(Std(obj.data_buffer))

\* C9: every add_point / process call adds exactly 1 to total_points, also
\* when it returns no verdict and when the buffer is full; with one thread
\* total_points is the number of calls made.
C9_TotalPointsCountsCalls ==
    /\ [](obj.total_points = Len(history))
    /\ [][op' \in Calls => obj'.total_points = obj.total_points + 1]_vars

\* An untrained window that has seen more points than it holds.
C9_Witness ==
    /\ op \in Calls
    /\ ret = NoVerdict
    /\ ~obj.is_trained
    /\ obj.total_points > Capacity
    /\ Len(obj.data_buffer) = Capacity

\* C10: get_stats changes no state, for both classes, including when there
\* is no verdict yet.
C10_GetStatsIsPure ==
    [][op' = "get_stats" =>
          /\ obj' = obj
          /\ history' = history
          /\ sse_events' = sse_events
          /\ data_points' = data_points]_vars

\* get_stats answered None on a window that has points but no verdict.
C10_Witness ==
    /\ op = "get_stats"
    /\ cls = "RealtimeAnomalyDetector"
    /\ ret = NoVerdict
    /\ obj.total_points > 0

\* The window's buffer as the detectors see it, and the last position of an
\* array a detector returns for it
NormalizedBuffer == Normalize(obj.processor, obj.data_buffer, FALSE).out
LastFlag(r) == r.out[Len(r.out)]

\* C11: whenever add_point / process emits a verdict, is_anomaly = 1 exactly
\* when the statistical detector or the isolation forest predicts 1 for the
\* last buffer position, and the score is the larger of the two detectors'
\* scores for that position.
C11_VerdictIsOrAndMax ==
    (op \in Calls /\ ret.kind = "verdict") =>
        /\ (ret.is_anomaly = 1) <=>
              \/ LastFlag(StatPredict(obj.detector, NormalizedBuffer)) = 1
              \/ LastFlag(IFPredict(obj.detector_if, NormalizedBuffer)) = 1
        /\ ret.score = RMax(LastFlag(StatScore(obj.detector, NormalizedBuffer)),
                            LastFlag(IFScore(obj.detector_if, NormalizedBuffer)))

\* A verdict on which the two detectors disagree: only the forest fires.
C11_Witness ==
    /\ op \in Calls
    /\ ret.kind = "verdict"
    /\ ret.is_anomaly = 1
    /\ LastFlag(StatPredict(obj.detector, NormalizedBuffer)) = 0
    /\ LastFlag(IFPredict(obj.detector_if, NormalizedBuffer)) = 1

\* The verdicts emitted so far: process stores a row for each, add_point
\* appends each to predictions_buffer (which no run explored here fills)
VerdictsEmitted ==
    IF cls = "StreamingDetector" THEN Len(data_points)
    ELSE Len(obj.predictions_buffer)

\* 1 if the call that has just returned emitted a verdict (with is_anomaly
\* = 1, for AnomalyEmitted), else 0
VerdictEmitted == IF ret.kind = "verdict" THEN 1 ELSE 0
AnomalyEmitted == IF ret.kind = "verdict" /\ ret.is_anomaly = 1 THEN 1 ELSE 0

\* C27: with one thread anomaly_count never decreases, and an add_point /
\* process call adds exactly 1 to it if it emits a verdict with is_anomaly =
\* 1 and nothing otherwise; so anomaly_count <= verdicts emitted <=
\* total_points in every state, and the anomaly_rate of get_stats is in
\* [0, 1].
C27_AnomalyCountCountsAnomalies ==
    /\ [][obj'.anomaly_count >= obj.anomaly_count]_vars
    /\ [][op' \in Calls =>
            /\ obj'.anomaly_count = obj.anomaly_count + AnomalyEmitted'
            /\ VerdictsEmitted' = VerdictsEmitted + VerdictEmitted']_vars
    /\ [](/\ 0 <= obj.anomaly_count
           /\ obj.anomaly_count <= VerdictsEmitted
           /\ VerdictsEmitted <= obj.total_points)
    /\ []((op = "get_stats" /\ ret.kind = "stats") =>
             /\ RLe(R(0), ret.anomaly_rate)
             /\ RLe(ret.anomaly_rate, R(1)))

\* get_stats reports one anomaly among several verdicts, after a call that
\* emitted a verdict and left the count alone
C27_Witness ==
    /\ op = "get_stats"
    /\ ret.kind = "stats"
    /\ ret.anomalies = 1
    /\ VerdictsEmitted >= 2
    /\ RLt(R(0), ret.anomaly_rate) /\ RLt(ret.anomaly_rate, R(1))


\* ===================================================================
\* One detector of models/ used directly (SpecDet), as examples/ and the
\* evaluation scripts use them.
\* ===================================================================

\* The fit calls that differ for a detector: every form of argument, every
\* batch, and every forest or neighbourhood sklearn may build for a model
\* the call reaches.
FitCalls(d) ==
    {[form |-> "ndarray", data |-> data, cut |-> cut, cut_lof |-> cut_lof] :
        data \in FitSets,
        cut \in IF d.name \in {"IsolationForest", "EnsembleDetector"}
                THEN IFCuts ELSE {R(1)},
        cut_lof \in IF d.name \in {"LocalOutlierFactor", "EnsembleDetector"}
                    THEN IFCuts ELSE {R(1)}}
    \cup {[form |-> "list", data |-> data, cut |-> R(1), cut_lof |-> R(1)] :
             data \in FitSets}
    \cup {[form |-> "None", data |-> <<>>, cut |-> R(1), cut_lof |-> R(1)]}

\* a result with .err as the value the caller sees
Returned(r) == IF r.err THEN Raised ELSE [kind |-> "array", out |-> r.out]

DetInit ==
    /\ det \in Detectors
    /\ arg = <<>>
    /\ cls = "models"
    /\ obj = NoVerdict
    /\ ret = NoVerdict
    /\ op = "init"
    /\ history = <<>>
    /\ sse_events = <<>>
    /\ data_points = <<>>
    /\ detectors = <<>>
    /\ threads = <<>>
    /\ stream_indices = <<>>
    /\ calls = <<>>

\* detector.fit(data)
Det_Fit ==
    /\ \E call \in FitCalls(det) :
         \E r \in {FitAs(det, call.form, call.data, call.cut, call.cut_lof)} :
            /\ det' = r.det
            /\ ret' = IF r.err THEN Raised ELSE NoVerdict
            /\ arg' = call.data
    /\ op' = "fit"
    /\ UNCHANGED <<seqVars_but_ret_op, serverVars>>

\* detector.score(data)
Det_ScoreDropping ==
    /\ \E data \in TestSets :
         /\ ret' = Returned(Score(det, data))
         /\ arg' = data
         /\ det' = IF det.name = "EnsembleDetector"
                   THEN [det EXCEPT !.detectors =
                           SelectSeq(@, LAMBDA m : ~MemberScore(m, data).err)]
                   ELSE det
    /\ op' = "score"
    /\ UNCHANGED <<seqVars_but_ret_op, serverVars>>
Det_Score ==
    /\ \E data \in TestSets :
         /\ ret' = Returned(Score(det, data))
         /\ arg' = data
    /\ op' = "score"
    /\ UNCHANGED <<det, seqVars_but_ret_op, serverVars>>

\* a predict that keeps a trace of the call in the detector
Det_PredictLearning ==
    /\ \E data \in TestSets :
         /\ ret' = Returned(Predict(det, data))
         /\ arg' = data
         /\ det' = [det EXCEPT !.metadata = data]
    /\ op' = "predict"
    /\ UNCHANGED <<seqVars_but_ret_op, serverVars>>

\* detector.predict(data)
Det_Predict ==
    /\ \E data \in TestSets :
         /\ ret' = Returned(Predict(det, data))
         /\ arg' = data
    /\ op' = "predict"
    /\ UNCHANGED <<det, seqVars_but_ret_op, serverVars>>

\* detector.predict_with_scores(data)
Det_PredictWithScores ==
    /\ \E data \in TestSets :
         /\ ret' = PredictWithScores(det, data)
         /\ arg' = data
    /\ op' = "predict_with_scores"
    /\ UNCHANGED <<det, seqVars_but_ret_op, serverVars>>

\* detector.set_threshold(threshold)
Det_SetThreshold ==
    /\ \E threshold \in Thresholds : det' = SetThreshold(det, threshold)
    /\ ret' = NoVerdict
    /\ op' = "set_threshold"
    /\ UNCHANGED <<arg, seqVars_but_ret_op, serverVars>>

DetNext ==
    \/ Det_Fit
    \/ Det_Score
    \/ Det_Predict
    \/ Det_PredictWithScores
    \/ Det_SetThreshold

SpecDet == DetInit /\ [][DetNext]_vars


\* ===================================================================
\* One TimeSeriesProcessor used directly (SpecProc)
\* ===================================================================

ProcInit ==
    /\ cls = "TimeSeriesProcessor"
    /\ \E normalization_method \in ProcMethods :
          obj = TimeSeriesProcessor(normalization_method)
    /\ ret = NoVerdict
    /\ op = "init"
    /\ arg = <<>>
    /\ history = <<>>
    /\ sse_events = <<>>
    /\ data_points = <<>>
    /\ detectors = <<>>
    /\ threads = <<>>
    /\ stream_indices = <<>>
    /\ calls = <<>>
    /\ det = NoVerdict

\* processor.normalize(data, fit)
Proc_Normalize ==
    /\ \E data \in ProcData, fit \in BOOLEAN :
         \E r \in {Normalize(obj, data, fit)} :
            /\ obj' = r.proc
            /\ ret' = IF r.err THEN Raised
                      ELSE [kind |-> "array", out |-> r.out, ndim |-> r.ndim]
            /\ op' = IF fit THEN "normalize(fit=True)" ELSE "normalize(fit=False)"
            /\ arg' = data
    /\ history' = <<>>
    /\ UNCHANGED <<cls, sse_events, data_points, serverVars, det>>

\* The arrays denormalize is called on: any 1-D array, and the array
\* normalize has just returned; `sample` is what normalize(fit=True) was
\* given to produce it, <<>> for any other array.
DenormalizeArgs ==
    {[data |-> data, ndim |-> 1, sample |-> <<>>] : data \in ProcData}
    \cup (IF ret.kind = "array" /\ op # "denormalize"
          THEN {[data |-> ret.out, ndim |-> ret.ndim,
                 sample |-> IF op = "normalize(fit=True)" THEN arg ELSE <<>>]}
          ELSE {})

\* processor.denormalize(data); history keeps the sample of a round trip
Proc_Denormalize ==
    /\ \E a \in DenormalizeArgs :
         \E r \in {Denormalize(obj, a.data, a.ndim)} :
            /\ ret' = IF r.err THEN Raised
                      ELSE [kind |-> "array", out |-> r.out, ndim |-> r.ndim]
            /\ arg' = a.data
            /\ history' = a.sample
    /\ op' = "denormalize"
    /\ UNCHANGED <<cls, obj, sse_events, data_points, serverVars, det>>

ProcNext ==
    \/ Proc_Normalize
    \/ Proc_Denormalize

SpecProc == ProcInit /\ [][ProcNext]_vars

\* ===================================================================
\* Properties of one TimeSeriesProcessor (SpecProc)
\* ===================================================================

\* C12: normalize(data, fit=False) before any normalize(..., fit=True)
\* raises and leaves the fitted flag false and the scaler unchanged; after
\* one successful normalize(..., fit=True) every later normalize(...,
\* fit=False) succeeds.
C12_TransformNeedsFit ==
    /\ [][op' = "normalize(fit=False)" =>
             /\ obj' = obj
             /\ IF obj.fitted THEN ret'.kind = "array" ELSE ret' = Raised]_vars
    /\ [][obj.fitted => obj'.fitted]_vars
    /\ [][(op' = "normalize(fit=True)" /\ ret' # Raised) => obj'.fitted]_vars

\* normalize(fit=False) has just raised on a processor never fitted.
C12_Witness ==
    /\ op = "normalize(fit=False)"
    /\ ret = Raised
    /\ ~obj.fitted
    /\ obj.scaler = GetScaler(obj.normalization_method)

\* C22: normalize(sample, fit=True) followed by denormalize of what it
\* returned gives a 1-D sequence of the same length with the values of the
\* sample, for every non-empty 1-D sample (a single value and identical
\* values included).
C22_RoundTrip ==
    (op = "denormalize" /\ history # <<>>) =>
        /\ ret.kind = "array"
        /\ ret.ndim = 1
        /\ ret.out = history

\* C22 for samples of two values or more: the round trip gives the sample
C22_RoundTripOfTwoOrMore ==
    (op = "denormalize" /\ Len(history) >= 2) =>
        /\ ret.kind = "array"
        /\ ret.ndim = 1
        /\ ret.out = history

\* C19: no configuration enum silently defaults: a TimeSeriesProcessor
\* created with a normalization method outside {standard, minmax, robust}
\* (and an EnsembleDetector created with a voting mode outside {majority,
\* weighted}) fails at first use instead of behaving like a valid value.
C19_NoSilentDefault ==
    (/\ obj.normalization_method \notin {"standard", "minmax", "robust"}
     /\ op \in {"normalize(fit=True)", "normalize(fit=False)", "denormalize"}) =>
        ret = Raised


\* ===================================================================
\* Properties of one detector used directly (SpecDet)
\* ===================================================================

DetCalls == {"score", "predict", "predict_with_scores"}

\* C5: for every detector variant, score, predict and predict_with_scores
\* on an instance that was never fitted fail with an unfitted-state error
\* and leave the detector unchanged.
C5_UnfittedCallsFail ==
    [][(op' \in DetCalls /\ ~det.is_fitted) =>
          (ret' = Raised /\ det' = det)]_vars

\* C6: for every detector variant and every input, predict(x)[i] = 1
\* exactly when score(x)[i] is strictly greater than the threshold field.
C6_PredictIffScoreAboveThreshold ==
    (op = "predict" /\ ret.kind = "array") =>
        \A i \in 1..Len(ret.out) :
            (ret.out[i] = 1) <=> RGt(Score(det, arg).out[i], det.threshold)

\* The members of the ensemble under test whose predict(arg) does not raise,
\* and those of them that flag position i.
Voters == {j \in 1..Len(det.detectors) :
              ~MemberPredict(det.detectors[j], arg).err}
Flagging(i) == {j \in Voters : MemberPredict(det.detectors[j], arg).out[i] = 1}

\* C7: in majority mode, with n >= 1 members predicting without raising of
\* which k flag position i, score[i] is k/n exactly and predict[i] = 1
\* exactly when k/n > 0.5; members that raise are not counted in n.
C7_MajorityIsKOverN ==
    (/\ det.name = "EnsembleDetector"
     /\ det.voting = "majority"
     /\ op \in {"score", "predict"}
     /\ Cardinality(Voters) >= 1) =>
        \A i \in 1..Len(arg) :
            /\ op = "score" =>
                  /\ ret.out[i][1] * Cardinality(Voters)
                        = Cardinality(Flagging(i)) * ret.out[i][2]
                  /\ ret.out[i][2] > 0
            /\ op = "predict" =>
                  ((ret.out[i] = 1) <=>
                      2 * Cardinality(Flagging(i)) > Cardinality(Voters))

\* One member raised (its fit had failed), one of the remaining two flags a
\* position, and predict answers 0 there.
C7_Witness ==
    /\ det.name = "EnsembleDetector"
    /\ det.voting = "majority"
    /\ op = "predict"
    /\ Cardinality(Voters) = 2
    /\ \E i \in 1..Len(arg) :
          /\ Cardinality(Flagging(i)) = 1
          /\ ret.out[i] = 0


\* member m is fitted, and on this batch
FittedOn(m, data) ==
    /\ m.is_fitted
    /\ IF m.name = "StatisticalDetector" THEN m.mean = Mean(data)
       ELSE m.model.center = Mean(data)

\* C13: EnsembleDetector.fit never propagates a member's training
\* exception: whichever members' fit raises (all of them included), fit
\* returns normally, every other member is trained on the batch, and the
\* ensemble is marked fitted.
C13_FitSwallowsMemberErrors ==
    [][(op' = "fit" /\ det.name = "EnsembleDetector") =>
          /\ ret' = NoVerdict
          /\ det'.is_fitted
          /\ Len(det'.detectors) = Len(det.detectors)
          /\ \A j \in 1..Len(det.detectors) :
                \/ det'.detectors[j] = det.detectors[j]
                \/ FittedOn(det'.detectors[j], arg')]_vars

\* fit has returned on an ensemble all of whose members raised: the
\* ensemble is marked fitted and no member is.
C13_Witness ==
    /\ op = "fit"
    /\ det.name = "EnsembleDetector"
    /\ ret = NoVerdict
    /\ det.is_fitted
    /\ \A j \in 1..Len(det.detectors) : ~det.detectors[j].is_fitted


\* The members the weighted branch pairs with a weight and whose score(arg)
\* does not raise, and what member j adds to position i of the weighted sum
Scorers == {j \in 1..Len(det.detectors) :
               /\ j <= Len(det.weights)
               /\ ~MemberScore(det.detectors[j], arg).err}
Share(j, i) ==
    IF j \notin Scorers THEN R(0)
    ELSE RMul(det.weights[j],
              MinMax(MemberScore(det.detectors[j], arg).out,
                     SeqMinR(MemberScore(det.detectors[j], arg).out),
                     SeqMaxR(MemberScore(det.detectors[j], arg).out))[i])

\* some member's call raises during score(arg)
SomeMemberRaises ==
    IF det.voting = "majority"
    THEN Voters # 1..Len(det.detectors)
    ELSE \E j \in 1..Len(det.detectors) : MemberScore(det.detectors[j], arg).err

\* C14: in EnsembleDetector.score a member whose predict / score call
\* raises is left out of that call's result only: score still returns a
\* vector built from the other members, nothing is raised, and the member
\* stays in the detectors list for the next call.
C14_RaisingMemberSkipped ==
    /\ [](( /\ det.name = "EnsembleDetector"
            /\ op = "score"
            /\ SomeMemberRaises) =>
              /\ ret.kind = "array"
              /\ Len(ret.out) = Len(arg)
              /\ \A i \in 1..Len(arg) :
                    IF det.voting = "majority"
                    THEN ret.out[i][1] * (IF Voters = {} THEN 1 ELSE Cardinality(Voters))
                            = Cardinality(Flagging(i)) * ret.out[i][2]
                    ELSE ret.out[i] =
                            RAdd(Share(1, i), RAdd(Share(2, i), Share(3, i))))
    /\ [][op' = "score" => det' = det]_vars

\* A weighted score to which the unfitted LOF member added nothing and
\* the other two did.
C14_Witness ==
    /\ det.name = "EnsembleDetector"
    /\ det.voting = "weighted"
    /\ op = "score"
    /\ Scorers = {1, 2}
    /\ \E i \in 1..Len(arg) : RGt(ret.out[i], R(0))

\* C15: if every member raises during a score call, score returns
\* len(data) zeros and predict returns all 0, in majority and in weighted
\* mode; that is also the output for an input no member flags.
C15_AllRaiseGivesZeros ==
    (det.name = "EnsembleDetector" /\ op \in {"score", "predict"}) =>
        /\ ((IF det.voting = "majority" THEN Voters = {} ELSE Scorers = {}) =>
               /\ ret.kind = "array"
               /\ Len(ret.out) = Len(arg)
               /\ \A i \in 1..Len(arg) :
                     ret.out[i] = IF op = "score" THEN R(0) ELSE 0)
        /\ ((/\ det.voting = "majority"
             /\ Voters # {}
             /\ \A i \in 1..Len(arg) : Flagging(i) = {}) =>
               \A i \in 1..Len(arg) :
                  ret.out[i] = IF op = "score" THEN R(0) ELSE 0)

\* Every member of a fitted ensemble raised, and predict answered all 0.
C15_Witness ==
    /\ det.name = "EnsembleDetector"
    /\ det.is_fitted
    /\ op = "predict"
    /\ IF det.voting = "majority" THEN Voters = {} ELSE Scorers = {}
    /\ ret.kind = "array"
    /\ \A i \in 1..Len(arg) : ret.out[i] = 0

\* C16: every constructed EnsembleDetector has as many weights as members,
\* and its weights sum to 1; a weight list of another length is not
\* accepted by the constructor.
C16_WeightsMatchMembers ==
    det.name = "EnsembleDetector" =>
        /\ Len(det.weights) = Len(det.detectors)
        /\ SeqSum(det.weights) = R(1)

\* C16, the part the constructor does establish: the weights sum to 1.
C16_WeightsSumToOne ==
    det.name = "EnsembleDetector" => SeqSum(det.weights) = R(1)

\* C17: set_threshold(v) sets the threshold field to v and leaves every other
\* field of the detector (is_fitted, fitted statistics or model, metadata)
\* as it was; a StatisticalDetector's predict flags exactly the points whose
\* score exceeds the threshold the detector holds at the time of the call.
C17_SetThresholdOnlyMovesBoundary ==
    /\ [][op' = "set_threshold" =>
            /\ det'.threshold \in Thresholds
            /\ det' = [det EXCEPT !.threshold = det'.threshold]]_vars
    /\ [][(op' = "predict" /\ det.name = "StatisticalDetector"
                            /\ ret'.kind = "array") =>
            /\ det' = det
            /\ ret'.out = [i \in 1..Len(StatScore(det, arg').out) |->
                             IF RGt(StatScore(det, arg').out[i], det.threshold)
                             THEN 1 ELSE 0]]_vars

\* a fitted StatisticalDetector whose threshold was lowered from 5/2 flags a
\* point whose score is below the threshold it was constructed with
C17_Witness ==
    /\ det.name = "StatisticalDetector"
    /\ det.is_fitted
    /\ det.metadata # <<>>
    /\ det.threshold \in Thresholds
    /\ det.threshold # <<5, 2>>
    /\ op = "predict"
    /\ ret.kind = "array"
    /\ \E i \in 1..Len(arg) :
         /\ ret.out[i] = 1
         /\ RLe(StatScore(det, arg).out[i], <<5, 2>>)

StatMethods == {"zscore", "iqr", "moving_average"}

\* C18: a StatisticalDetector whose method is none of zscore, iqr and
\* moving_average is constructed and fitted without an error (fit on an
\* array or a list assigns the statistics and sets is_fitted), and every
\* score, predict and predict_with_scores call on it raises.
C18_UnknownMethodFailsAtScore ==
    /\ [][(op' = "fit" /\ det.name = "StatisticalDetector"
                        /\ det.method \notin StatMethods) =>
            IF arg' \in FitSets
            THEN /\ ret' = NoVerdict
                 /\ det' = StatFit(det, arg')
                 /\ det'.is_fitted
            ELSE ret' = Raised /\ det' = det]_vars
    /\ [][(op' \in {"score", "predict", "predict_with_scores"}
              /\ det.name = "StatisticalDetector"
              /\ det.method \notin StatMethods) =>
            (ret' = Raised /\ det' = det)]_vars

\* the detector of unknown method, fitted, has just refused to score
C18_Witness ==
    /\ det.name = "StatisticalDetector"
    /\ det.method \notin StatMethods
    /\ det.is_fitted
    /\ det.mean # None
    /\ op \in {"score", "predict"}
    /\ ret = Raised

\* C20: score and predict leave the detector as it was (threshold,
\* is_fitted, fitted statistics or model, metadata), and a score or predict
\* call that follows the same call with the same input on a fitted detector
\* returns what that call returned; for every detector of models/.
C20_ScoreIsRepeatable ==
    /\ [][op' \in {"score", "predict"} => det' = det]_vars
    /\ [][(op' \in {"score", "predict"} /\ op = op' /\ arg' = arg
                                         /\ det.is_fitted) =>
            ret' = ret]_vars

\* a fitted moving-average detector and a fitted weighted ensemble have
\* returned scores that are not all zero, and scoring the same input again
\* gives the same
C20_Witness ==
    /\ det.is_fitted
    /\ \/ det.name = "StatisticalDetector" /\ det.method = "moving_average"
       \/ det.name = "EnsembleDetector" /\ det.voting = "weighted"
    /\ op = "score"
    /\ ret.kind = "array"
    /\ \E i \in 1..Len(arg) : ret.out[i] # R(0)
    /\ ret = Returned(Score(det, arg))

\* the result predict_with_scores has just returned has n predictions in
\* {0, 1} and n scores, counts the 1s and reports their share of n
WellFormedResult(n) ==
    /\ ret.kind = "result"
    /\ Len(ret.predictions) = n
    /\ Len(ret.scores) = n
    /\ \A i \in 1..Len(ret.predictions) : ret.predictions[i] \in {0, 1}
    /\ ret.anomaly_count =
         R(Cardinality({i \in 1..Len(ret.predictions) : ret.predictions[i] = 1}))
    /\ ret.anomaly_rate = RDiv(ret.anomaly_count, R(n))

\* C23: predict_with_scores of a fitted StatisticalDetector of any of the
\* three methods, on any non-empty 1-D input (for moving_average also one
\* shorter than window), returns len(input) predictions in {0, 1} and
\* len(input) scores, anomaly_count = the number of 1s and anomaly_rate =
\* anomaly_count / len(input).
C23_ResultHasInputLength ==
    (/\ op = "predict_with_scores"
     /\ det.name = "StatisticalDetector"
     /\ det.is_fitted
     /\ det.method \in StatMethods) =>
        WellFormedResult(Len(arg))

\* C23 where the input is at least as long as the moving-average window
C23_ResultOfLongEnoughInput ==
    (/\ op = "predict_with_scores"
     /\ det.name = "StatisticalDetector"
     /\ det.is_fitted
     /\ det.method \in StatMethods
     /\ det.method = "moving_average" => Len(arg) >= det.window) =>
        WellFormedResult(Len(arg))

UnitInterval(x) == RLe(R(0), x) /\ RLe(x, R(1))

\* C24: in weighted mode each member adds between 0 and its weight to every
\* position, so every score score returns lies in [0, 1], and so does every
\* confidence predict_with_scores reports; for every input, a single point
\* and an input on which a member's scores are all equal included.
C24_WeightedScoreInUnitInterval ==
    (det.name = "EnsembleDetector" /\ det.voting # "majority") =>
        /\ (op = "score" /\ ret.kind = "array") =>
              /\ \A i \in 1..Len(ret.out) : UnitInterval(ret.out[i])
              /\ \A j \in Scorers : \A i \in 1..Len(arg) :
                    RLe(R(0), Share(j, i)) /\ RLe(Share(j, i), det.weights[j])
        /\ (op = "predict_with_scores" /\ ret.kind = "result") =>
              /\ \A i \in 1..Len(ret.scores) : UnitInterval(ret.scores[i])
              /\ \A i \in 1..Len(ret.confidence) :
                    UnitInterval(ret.confidence[i])

\* C24 on an input on which every scoring member's scores differ: there
\* the scores and the confidence do lie in [0, 1]
C24_InUnitIntervalWhenScoresDiffer ==
    (/\ det.name = "EnsembleDetector" /\ det.voting # "majority"
     /\ op \in {"score", "predict_with_scores"}
     /\ \A j \in Scorers :
           RGt(SeqMaxR(MemberScore(det.detectors[j], arg).out),
               SeqMinR(MemberScore(det.detectors[j], arg).out))) =>
        /\ ret.kind = "array" =>
              \A i \in 1..Len(ret.out) : UnitInterval(ret.out[i])
        /\ ret.kind = "result" =>
              /\ \A i \in 1..Len(ret.scores) : UnitInterval(ret.scores[i])
              /\ \A i \in 1..Len(ret.confidence) :
                    UnitInterval(ret.confidence[i])

\* Q1 - 1.5 * IQR and Q3 + 1.5 * IQR of the fitted detector
LowerBound == RSub(det.Q1, RMul(<<3, 2>>, RSub(det.Q3, det.Q1)))
UpperBound == RAdd(det.Q3, RMul(<<3, 2>>, RSub(det.Q3, det.Q1)))
WithinBounds(x) == RLe(LowerBound, x) /\ RLe(x, UpperBound)

\* C25: with method iqr a point within [Q1 - 1.5 IQR, Q3 + 1.5 IQR], the
\* bounds included, scores exactly 0 and is not flagged whatever the
\* threshold (>= 0); a point outside scores |x - mean| / (std + 1e-8).
C25_IqrScoresZeroWithinBounds ==
    (/\ det.name = "StatisticalDetector" /\ det.method = "iqr"
     /\ det.is_fitted /\ RLe(R(0), det.threshold)) =>
        /\ (op = "score" /\ ret.kind = "array") =>
              /\ Len(ret.out) = Len(arg)
              /\ \A i \in 1..Len(arg) :
                    ret.out[i] = IF WithinBounds(arg[i]) THEN R(0)
                                 ELSE DivEps(RAbs(RSub(arg[i], det.mean)), det.std)
        /\ (op = "predict" /\ ret.kind = "array") =>
              /\ Len(ret.out) = Len(arg)
              /\ \A i \in 1..Len(arg) : WithinBounds(arg[i]) => ret.out[i] = 0

\* a point on the upper bound, four standard deviations from the mean, has
\* scored 0 next to a point outside that scored its z-score
C25_Witness ==
    /\ det.name = "StatisticalDetector" /\ det.method = "iqr"
    /\ det.is_fitted
    /\ op = "score"
    /\ ret.kind = "array"
    /\ \E i \in 1..Len(arg) :
         /\ arg[i] = UpperBound
         /\ arg[i] # det.mean
         /\ ret.out[i] = R(0)
    /\ \E i \in 1..Len(arg) :
         /\ ~WithinBounds(arg[i])
         /\ RGt(ret.out[i], det.threshold)

\* C26: fit of a zscore StatisticalDetector on data of zero variance (all
\* values equal to m) does not raise; afterwards a point equal to m scores 0
\* and a point at distance d scores |d| / 1e-8, and with threshold 2.5 the
\* first is predicted 0 and the second 1.
C26_ZeroVarianceFit ==
    /\ [][(/\ op' = "fit" /\ arg' \in FitSets
            /\ det.name = "StatisticalDetector" /\ det.method = "zscore") =>
             /\ ret' = NoVerdict
             /\ det'.is_fitted
             /\ det'.mean = Mean(arg') /\ det'.std = Std(arg')]_vars
    /\ []((/\ det.name = "StatisticalDetector" /\ det.method = "zscore"
            /\ det.is_fitted /\ det.std = R(0)
            /\ op \in {"score", "predict"}) =>
             /\ ret.kind = "array"
             /\ Len(ret.out) = Len(arg)
             /\ \A i \in 1..Len(arg) :
                   IF op = "score"
                   THEN ret.out[i] = RMul(RAbs(RSub(arg[i], det.mean)), R(EpsInv))
                   ELSE det.threshold = <<5, 2>> =>
                          ret.out[i] = IF arg[i] = det.mean THEN 0 ELSE 1)

\* fitted on zero-variance data, the detector with threshold 2.5 has
\* predicted [1, 0] for a point off the training value and a point on it
C26_Witness ==
    /\ det.name = "StatisticalDetector" /\ det.method = "zscore"
    /\ det.is_fitted /\ det.std = R(0)
    /\ det.threshold = <<5, 2>>
    /\ op = "predict"
    /\ Len(arg) = 2 /\ arg[1] # det.mean /\ arg[2] = det.mean
    /\ ret.kind = "array"
    /\ ret.out = <<1, 0>>


\* ===================================================================
\* server.py as it runs (SpecServer): the background worker thread
\* (auto_fetch_and_process) and a request-handler thread of the threaded
\* Flask server share the registry, the stored rows and the SSE buffer.
\* No lock guards any of them, so a thread may be preempted between any
\* two reads or writes of shared state; each action below is one such
\* read or write.
\* ===================================================================

\* detectors = {'cpu': StreamingDetector('CPU_Usage'), ...}: the entries
\* the model follows, in the order the worker visits them
KeyOrder == <<"cpu">>
ServerKeys == {KeyOrder[i] : i \in 1..Len(KeyOrder)}
SourceName(key) ==
    IF key = "cpu" THEN "CPU_Usage"
    ELSE IF key = "financial" THEN "Financial_Data"
    ELSE key

\* data = df['cpu_usage'].values: the batch generated for training, and
\* streams[key][i]: the readings generated for the stream
TrainData(key) == <<R(8), R(12), R(8), R(12)>>
StreamValue(key, i) == IF i = StreamLen - 1 THEN Spike ELSE Baseline

\* The dictionary get_stats is building: `read` counts the attribute reads
\* made so far
StatsBlank ==
    [read |-> 0, total_points |-> 0, anomalies |-> 0, rate_anomalies |-> 0,
     rate_total |-> 0, is_trained |-> FALSE, buffer_size |-> 0]

\* The locals of a thread that is between requests
Locals0 ==
    [pc |-> "idle", req |-> "", key |-> "", value |-> None, tmp |-> 0,
     data |-> <<>>, is_anomaly |-> 0, score |-> None, result |-> NoVerdict,
     stats |-> StatsBlank, total_anomalies |-> 0, served |-> 0]

ServerInit ==
    /\ detectors = [key \in ServerKeys |-> StreamingDetector(SourceName(key))]
    /\ threads = [worker |-> [Locals0 EXCEPT !.pc = "train", !.key = KeyOrder[1]],
                  handler |-> Locals0]
    /\ stream_indices = [key \in ServerKeys |-> 0]
    /\ calls = [key \in ServerKeys |-> 0]
    /\ sse_events = <<>>
    /\ data_points = <<>>
    /\ cls = "server"
    /\ obj = NoVerdict
    /\ ret = NoVerdict
    /\ op = "init"
    /\ history = <<>>
    /\ det = NoVerdict
    /\ arg = <<>>

\* the thread's locals, and the detector its call is on
At(t, pc) == threads[t].pc = pc
Self(t) == detectors[threads[t].key]

\* where a thread goes when process returns: the worker to
\* stream_indices[key] += 1, submit_data to get_stats
AfterProcess(t) == IF t = "worker" THEN "advance" ELSE "stats"

serverFrame == <<cls, obj, history, det, arg>>

\* ---- auto_fetch_and_process: detectors[key].train(data), in its steps

\* normalized = self.processor.normalize(data, fit=True)
W_TrainNormalize ==
    /\ At("worker", "train")
    /\ \E n \in {Normalize(Self("worker").processor,
                           TrainData(threads.worker.key), TRUE)} :
            /\ detectors' = [detectors EXCEPT
                               ![threads.worker.key].processor = n.proc]
            /\ threads' = [threads EXCEPT !.worker.pc = "train_fit",
                                          !.worker.data = n.out]
    /\ UNCHANGED <<stream_indices, calls, sse_events, data_points, ret, op,
                   serverFrame>>

\* a train that sets is_trained before the detectors are fitted
W_TrainDoneEarly ==
    /\ At("worker", "train_fit")
    /\ detectors' = [detectors EXCEPT ![threads.worker.key].is_trained = TRUE]
    /\ threads' = [threads EXCEPT !.worker.pc = "loop", !.worker.data = <<>>]
    /\ UNCHANGED <<stream_indices, calls, sse_events, data_points, ret, op,
                   serverFrame>>

\* self.detector.fit(normalized)
W_TrainFit ==
    /\ At("worker", "train_fit")
    /\ detectors' = [detectors EXCEPT ![threads.worker.key].detector =
                        StatFit(@, threads.worker.data)]
    /\ threads' = [threads EXCEPT !.worker.pc = "train_fit_if"]
    /\ UNCHANGED <<stream_indices, calls, sse_events, data_points, ret, op,
                   serverFrame>>

\* self.detector_if.fit(normalized)
W_TrainFitIF ==
    /\ At("worker", "train_fit_if")
    /\ \E cut \in IFCuts :
         detectors' = [detectors EXCEPT ![threads.worker.key].detector_if =
                          IFFit(@, threads.worker.data, cut)]
    /\ threads' = [threads EXCEPT !.worker.pc = "train_done",
                                  !.worker.data = <<>>]
    /\ UNCHANGED <<stream_indices, calls, sse_events, data_points, ret, op,
                   serverFrame>>

\* A fit that raises once the normalizer is fitted (IsolationForest.fit
\* rejects a NaN that StandardScaler lets through, for one): train is left
\* at that statement, `except Exception` of the worker prints the error and
\* the worker goes on to the streaming loop.
W_TrainRaises ==
    /\ At("worker", "train_fit") \/ At("worker", "train_fit_if")
    /\ threads' = [threads EXCEPT !.worker.pc = "loop", !.worker.data = <<>>]
    /\ UNCHANGED <<detectors, stream_indices, calls, sse_events, data_points,
                   ret, op, serverFrame>>

\* self.is_trained = True; the worker then goes on to the streaming loop
W_TrainDone ==
    /\ At("worker", "train_done")
    /\ detectors' = [detectors EXCEPT ![threads.worker.key].is_trained = TRUE]
    /\ threads' = [threads EXCEPT !.worker.pc = "loop"]
    /\ UNCHANGED <<stream_indices, calls, sse_events, data_points, ret, op,
                   serverFrame>>

\* value = streams[key][stream_indices[key]]; detectors[key].process(value)
W_Next ==
    /\ At("worker", "loop")
    /\ stream_indices[threads.worker.key] < StreamLen
    /\ threads' = [threads EXCEPT
                     !.worker.pc = "append",
                     !.worker.value =
                         StreamValue(threads.worker.key,
                                     stream_indices[threads.worker.key])]
    /\ UNCHANGED <<detectors, stream_indices, calls, sse_events, data_points,
                   ret, op, serverFrame>>

\* stream_indices[key] += 1 (only the worker writes it)
W_Advance ==
    /\ At("worker", "advance")
    /\ stream_indices' = [stream_indices EXCEPT ![threads.worker.key] = @ + 1]
    /\ threads' = [threads EXCEPT !.worker.pc = "loop",
                                  !.worker.value = None,
                                  !.worker.result = NoVerdict]
    /\ UNCHANGED <<detectors, calls, sse_events, data_points, ret, op,
                   serverFrame>>

\* ---- StreamingDetector.process on thread t, in its steps

\* self.data_buffer.append(value)
P_Append(t) ==
    /\ At(t, "append")
    /\ detectors' = [detectors EXCEPT ![threads[t].key].data_buffer =
                        DequeAppend(@, threads[t].value, WindowSize)]
    /\ calls' = [calls EXCEPT ![threads[t].key] = @ + 1]
    /\ threads' = [threads EXCEPT ![t].pc = "load_total"]
    /\ UNCHANGED <<stream_indices, sse_events, data_points, ret, op,
                   serverFrame>>

\* self.total_points += 1: the read ...
P_LoadTotal(t) ==
    /\ At(t, "load_total")
    /\ threads' = [threads EXCEPT ![t].pc = "store_total",
                                  ![t].tmp = Self(t).total_points]
    /\ UNCHANGED <<detectors, stream_indices, calls, sse_events, data_points,
                   ret, op, serverFrame>>

\* ... and the write
P_StoreTotal(t) ==
    /\ At(t, "store_total")
    /\ detectors' = [detectors EXCEPT ![threads[t].key].total_points =
                        CountPoint(threads[t].tmp)]
    /\ threads' = [threads EXCEPT ![t].pc = "check", ![t].tmp = 0]
    /\ UNCHANGED <<stream_indices, calls, sse_events, data_points, ret, op,
                   serverFrame>>

\* if not self.is_trained or len(self.data_buffer) < 10: return None
P_Check(t) ==
    /\ At(t, "check")
    /\ threads' = [threads EXCEPT
                     ![t].pc = IF Ready(Self(t)) THEN "detect"
                               ELSE AfterProcess(t)]
    /\ UNCHANGED <<detectors, stream_indices, calls, sse_events, data_points,
                   ret, op, serverFrame>>

\* data_array = np.array(list(self.data_buffer)) ... is_anomaly = ...
P_Detect(t) ==
    /\ At(t, "detect")
    /\ \E d \in {Detect(Self(t))} :
         threads' = [threads EXCEPT
            ![t].pc = IF d.err THEN (IF t = "worker" THEN "loop" ELSE "respond")
                      ELSE IF EnsemblePred(d) = 1 THEN "load_anomaly"
                      ELSE "store_row",
            ![t].result = IF d.err THEN Raised ELSE NoVerdict,
            ![t].is_anomaly = IF d.err THEN 0 ELSE EnsemblePred(d),
            ![t].score = IF d.err THEN None
                         ELSE RMax(d.score_stat, d.score_if)]
    /\ UNCHANGED <<detectors, stream_indices, calls, sse_events, data_points,
                   ret, op, serverFrame>>

\* self.anomaly_count += 1: the read ...
P_LoadAnomaly(t) ==
    /\ At(t, "load_anomaly")
    /\ threads' = [threads EXCEPT ![t].pc = "store_anomaly",
                                  ![t].tmp = Self(t).anomaly_count]
    /\ UNCHANGED <<detectors, stream_indices, calls, sse_events, data_points,
                   ret, op, serverFrame>>

\* ... and the write
P_StoreAnomaly(t) ==
    /\ At(t, "store_anomaly")
    /\ detectors' = [detectors EXCEPT ![threads[t].key].anomaly_count =
                        threads[t].tmp + 1]
    /\ threads' = [threads EXCEPT ![t].pc = "store_row", ![t].tmp = 0]
    /\ UNCHANGED <<stream_indices, calls, sse_events, data_points, ret, op,
                   serverFrame>>

\* store_data_point(self.source_name, value, is_anomaly, score)
P_StoreRow(t) ==
    /\ At(t, "store_row")
    /\ data_points' = Append(data_points,
                             [source |-> Self(t).source_name,
                              value |-> threads[t].value,
                              is_anomaly |-> threads[t].is_anomaly,
                              score |-> threads[t].score])
    /\ threads' = [threads EXCEPT
                     ![t].pc = IF threads[t].is_anomaly = 1 THEN "events"
                               ELSE AfterProcess(t),
                     ![t].result =
                         IF threads[t].is_anomaly = 1 THEN @
                         ELSE [kind |-> "verdict", value |-> threads[t].value,
                               is_anomaly |-> 0, score |-> threads[t].score],
                     ![t].is_anomaly =
                         IF threads[t].is_anomaly = 1 THEN @ ELSE 0,
                     ![t].score = IF threads[t].is_anomaly = 1 THEN @ ELSE None]
    /\ UNCHANGED <<detectors, stream_indices, calls, sse_events, ret, op,
                   serverFrame>>

\* create_alert(...) and sse_events.append({'type': 'anomaly', ...}); then
\* return {'value': ..., 'is_anomaly': ..., 'score': ...}
P_Events(t) ==
    /\ At(t, "events")
    /\ sse_events' =
         AppendAll(sse_events,
                   <<[type |-> "alert", source |-> Self(t).source_name,
                      value |-> threads[t].value],
                     [type |-> "anomaly", source |-> Self(t).source_name,
                      value |-> threads[t].value, score |-> threads[t].score]>>,
                   SseEventsMax)
    /\ threads' = [threads EXCEPT
                     ![t].pc = AfterProcess(t),
                     ![t].result =
                         [kind |-> "verdict", value |-> threads[t].value,
                          is_anomaly |-> 1, score |-> threads[t].score],
                     ![t].is_anomaly = 0,
                     ![t].score = None]
    /\ UNCHANGED <<detectors, stream_indices, calls, data_points, ret, op,
                   serverFrame>>

\* ---- StreamingDetector.get_stats on thread t: one attribute read a step,
\* in the order the dictionary display evaluates them

ReadField(st, self) ==
    IF st.read = 0 THEN [st EXCEPT !.read = 1, !.total_points = self.total_points]
    ELSE IF st.read = 1 THEN [st EXCEPT !.read = 2, !.anomalies = self.anomaly_count]
    ELSE IF st.read = 2 THEN [st EXCEPT !.read = 3, !.rate_anomalies = self.anomaly_count]
    ELSE IF st.read = 3 THEN [st EXCEPT !.read = 4, !.rate_total = self.total_points]
    ELSE IF st.read = 4 THEN [st EXCEPT !.read = 5, !.is_trained = self.is_trained]
    ELSE [st EXCEPT !.read = 6, !.buffer_size = Len(self.data_buffer)]

\* the dictionary once every read is made
StatsDict(source_name, st) ==
    [kind |-> "stats", source |-> source_name,
     total_points |-> st.total_points,
     anomalies |-> st.anomalies,
     anomaly_rate |-> RDiv(R(st.rate_anomalies), R(AtLeastOne(st.rate_total))),
     is_trained |-> st.is_trained,
     buffer_size |-> st.buffer_size]

G_Read(t) ==
    /\ At(t, "stats")
    /\ \E st \in {ReadField(threads[t].stats, Self(t))} :
         threads' = [threads EXCEPT
                       ![t].stats = st,
                       ![t].pc = IF st.read < 6 THEN "stats"
                                 ELSE IF threads[t].req = "status" THEN "sum"
                                 ELSE "respond"]
    /\ UNCHANGED <<detectors, stream_indices, calls, sse_events, data_points,
                   ret, op, serverFrame>>

\* ---- the request handlers

\* POST /api/submit: result = detectors[source].process(value)
H_Submit ==
    /\ At("handler", "idle")
    /\ threads.handler.served < MaxRequests
    /\ \E source \in ServerKeys, value \in Values :
         threads' = [threads EXCEPT !.handler.pc = "append",
                                    !.handler.req = "submit",
                                    !.handler.key = source,
                                    !.handler.value = value,
                                    !.handler.served = @ + 1]
    /\ UNCHANGED <<detectors, stream_indices, calls, sse_events, data_points,
                   ret, op, serverFrame>>

\* GET /api/status: stats[key] = detector.get_stats()
H_Status ==
    /\ At("handler", "idle")
    /\ threads.handler.served < MaxRequests
    /\ threads' = [threads EXCEPT !.handler.pc = "stats",
                                  !.handler.req = "status",
                                  !.handler.key = KeyOrder[1],
                                  !.handler.served = @ + 1]
    /\ UNCHANGED <<detectors, stream_indices, calls, sse_events, data_points,
                   ret, op, serverFrame>>

\* 'total_anomalies': sum(d.get_stats()['anomalies'] for d in ...): a second
\* get_stats, of which only the read of anomaly_count is kept
H_Sum ==
    /\ At("handler", "sum")
    /\ threads' = [threads EXCEPT
                     !.handler.pc = "respond",
                     !.handler.total_anomalies = Self("handler").anomaly_count]
    /\ UNCHANGED <<detectors, stream_indices, calls, sse_events, data_points,
                   ret, op, serverFrame>>

\* return jsonify({...})
H_Respond ==
    /\ At("handler", "respond")
    /\ ret' = [kind |-> "response",
               result |-> threads.handler.result,
               stats |-> StatsDict(Self("handler").source_name,
                                   threads.handler.stats),
               total_anomalies |-> threads.handler.total_anomalies]
    /\ op' = threads.handler.req
    /\ threads' = [threads EXCEPT
                     !.handler = [Locals0 EXCEPT !.served = threads.handler.served]]
    /\ UNCHANGED <<detectors, stream_indices, calls, sse_events, data_points,
                   serverFrame>>

Threads == {"worker", "handler"}

ServerNext ==
    \/ W_TrainNormalize
    \/ W_TrainFit
    \/ W_TrainFitIF
    \/ W_TrainRaises
    \/ W_TrainDone
    \/ W_Next
    \/ W_Advance
    \/ \E t \in Threads : P_Append(t)
    \/ \E t \in Threads : P_LoadTotal(t)
    \/ \E t \in Threads : P_StoreTotal(t)
    \/ \E t \in Threads : P_Check(t)
    \/ \E t \in Threads : P_Detect(t)
    \/ \E t \in Threads : P_LoadAnomaly(t)
    \/ \E t \in Threads : P_StoreAnomaly(t)
    \/ \E t \in Threads : P_StoreRow(t)
    \/ \E t \in Threads : P_Events(t)
    \/ \E t \in Threads : G_Read(t)
    \/ H_Submit
    \/ H_Status
    \/ H_Sum
    \/ H_Respond

SpecServer == ServerInit /\ [][ServerNext]_vars


\* ===================================================================
\* Properties of the running server (SpecServer)
\* ===================================================================

\* thread t is inside detectors[key].process
InProcess(t, key) ==
    /\ threads[t].key = key
    /\ threads[t].pc \in {"append", "load_total", "store_total", "check",
                          "detect", "load_anomaly", "store_anomaly",
                          "store_row", "events"}

\* rows stored for an anomaly verdict of the detector at `key`
AnomalyRows(key) ==
    {i \in 1..Len(data_points) :
        /\ data_points[i].source = detectors[key].source_name
        /\ data_points[i].is_anomaly = 1}

\* C3: process executions of the worker and of /api/submit on one detector
\* are serialized, so whenever no call is in progress total_points equals
\* the number of process calls made on the detector and anomaly_count the
\* number of anomaly verdicts: no increment is lost.
C3_NoLostIncrement ==
    \A key \in ServerKeys :
        (\A t \in Threads : ~InProcess(t, key)) =>
            /\ detectors[key].total_points = calls[key]
            /\ detectors[key].anomaly_count = Cardinality(AnomalyRows(key))

\* C4: every get_stats result returned while process runs on another
\* thread is a consistent snapshot: buffer_size = min(total_points, W) and
\* anomalies <= total_points.
C4_StatsAreASnapshot ==
    (op \in {"submit", "status"} /\ ret.kind = "response") =>
        /\ ret.stats.buffer_size = Min2(ret.stats.total_points, WindowSize)
        /\ ret.stats.anomalies <= ret.stats.total_points

\* the worker is inside detectors[key].train
Training == threads.worker.pc \in {"train", "train_fit", "train_fit_if", "train_done"}

\* rows stored and events pushed for the detector at `key`
RowsOf(key) ==
    {i \in 1..Len(data_points) :
        data_points[i].source = detectors[key].source_name}
EventsOf(key) ==
    {i \in 1..Len(sse_events) :
        sse_events[i].source = detectors[key].source_name}

\* C28: under every interleaving of train (worker) and process (worker and
\* /api/submit), is_trained implies that the normalizer and both detectors
\* are fitted, so process reaches its detection on fitted components only
\* and none of its calls raises; and when train raises part-way is_trained
\* stays false and the stream never emits a verdict.
C28_TrainedImpliesFitted ==
    /\ [](\A key \in ServerKeys :
            detectors[key].is_trained =>
                /\ detectors[key].processor.fitted
                /\ detectors[key].detector.is_fitted
                /\ detectors[key].detector_if.is_fitted)
    /\ [](\A t \in Threads :
            At(t, "detect") =>
                /\ Self(t).processor.fitted
                /\ Self(t).detector.is_fitted
                /\ Self(t).detector_if.is_fitted
                /\ ~Detect(Self(t)).err)
    /\ [](\A t \in Threads : threads[t].result # Raised)
    /\ [][\A key \in ServerKeys :
            (~Training /\ ~detectors[key].is_trained) =>
                ~detectors'[key].is_trained]_vars
    /\ [](\A key \in ServerKeys :
            ~detectors[key].is_trained =>
                /\ RowsOf(key) = {}
                /\ EventsOf(key) = {}
                /\ \A t \in Threads :
                      threads[t].key = key => threads[t].result.kind # "verdict")

\* train raised after the normalizer was fitted; the worker has since fed
\* the whole stream, spike included, to the detector, which stored no row
C28_Witness ==
    /\ ~Training
    /\ ~detectors.cpu.is_trained
    /\ detectors.cpu.processor.fitted
    /\ stream_indices.cpu = StreamLen
    /\ detectors.cpu.total_points >= MinPoints
    /\ Len(detectors.cpu.data_buffer) >= MinPoints
    /\ data_points = <<>>

\* C30: in every /api/status response total_anomalies is the sum of the
\* anomalies fields of the per-detector stats of the same response, also
\* while the worker or /api/submit runs process.
C30_TotalIsSumOfStats ==
    (op = "status" /\ ret.kind = "response") =>
        ret.total_anomalies = ret.stats.anomalies


\* ===================================================================
\* The detectors registry of server.py with two of its entries, its calls
\* made one at a time (SpecReg): the worker's train and process, and the
\* /api/configure handler.
\* ===================================================================

RegKeys == {"cpu", "financial"}

\* len(streams[key]): the cpu stream is long enough for verdicts, the
\* financial stream ends before its window can give one
RegStreamLen(key) == IF key = "cpu" THEN StreamLen ELSE MaxExtra

RegInit ==
    /\ detectors = [key \in RegKeys |-> StreamingDetector(SourceName(key))]
    /\ stream_indices = [key \in RegKeys |-> 0]
    /\ cls = "registry"
    /\ obj = NoVerdict
    /\ ret = NoVerdict
    /\ op = "init"
    /\ arg = ""
    /\ history = <<>>
    /\ sse_events = <<>>
    /\ data_points = <<>>
    /\ threads = <<>>
    /\ calls = <<>>
    /\ det = NoVerdict

regFrame == <<cls, obj, history, threads, calls, det>>

\* detectors[key].train(data)
Reg_Train(key) ==
    /\ ~detectors[key].is_trained
    /\ \E cut \in IFCuts :
         detectors' = [detectors EXCEPT
                         ![key] = Train(@, TrainData(key), cut)]
    /\ ret' = NoVerdict
    /\ op' = "train"
    /\ arg' = key
    /\ UNCHANGED <<stream_indices, sse_events, data_points, regFrame>>

\* a process whose data_buffer is one deque shared by the entries
Reg_ProcessShared(key) ==
    /\ stream_indices[key] < RegStreamLen(key)
    /\ \E r \in {Process(detectors[key],
                          StreamValue(key, stream_indices[key]))} :
         /\ detectors' = [k \in RegKeys |->
                            IF k = key THEN r.self
                            ELSE [detectors[k] EXCEPT
                                    !.data_buffer = r.self.data_buffer]]
         /\ ret' = r.ret
         /\ data_points' = data_points \o r.rows
         /\ sse_events' = AppendAll(sse_events, r.events, SseEventsMax)
    /\ stream_indices' = [stream_indices EXCEPT ![key] = @ + 1]
    /\ op' = "process"
    /\ arg' = key
    /\ UNCHANGED regFrame

\* the worker's loop body for one key: value = streams[key][...];
\* result = detectors[key].process(value); stream_indices[key] += 1
Reg_Process(key) ==
    /\ stream_indices[key] < RegStreamLen(key)
    /\ \E r \in {Process(detectors[key],
                          StreamValue(key, stream_indices[key]))} :
         /\ detectors' = [detectors EXCEPT ![key] = r.self]
         /\ ret' = r.ret
         /\ data_points' = data_points \o r.rows
         /\ sse_events' = AppendAll(sse_events, r.events, SseEventsMax)
    /\ stream_indices' = [stream_indices EXCEPT ![key] = @ + 1]
    /\ op' = "process"
    /\ arg' = key
    /\ UNCHANGED regFrame

\* POST /api/configure: detectors[source].detector.set_threshold(threshold),
\* or 'Invalid source' for a source the registry does not hold
Reg_Configure(source, threshold) ==
    /\ IF source \in RegKeys
       THEN /\ detectors' = [detectors EXCEPT
                               ![source].detector = SetThreshold(@, threshold)]
            /\ ret' = [kind |-> "response", success |-> TRUE]
       ELSE /\ detectors' = detectors
            /\ ret' = [kind |-> "response", success |-> FALSE]
    /\ op' = "set_threshold"
    /\ arg' = source
    /\ UNCHANGED <<stream_indices, sse_events, data_points, regFrame>>

RegNext ==
    \/ \E key \in RegKeys : Reg_Train(key)
    \/ \E key \in RegKeys : Reg_Process(key)
    \/ \E source \in RegKeys \cup {"disk"}, threshold \in Thresholds :
          Reg_Configure(source, threshold)

SpecReg == RegInit /\ [][RegNext]_vars

\* C21: every entry of the registry owns its window: a process, train or
\* set_threshold call on one entry leaves every other entry (buffer,
\* total_points, anomaly_count, is_trained, normalizer and detectors) as
\* it was.
C21_EntriesAreIndependent ==
    [][\A key \in RegKeys :
          key # arg' => detectors'[key] = detectors[key]]_vars

\* the cpu entry is trained, reconfigured and has counted an anomaly; the
\* call that has just returned was a process on the financial entry, which
\* is untrained and has counted its own points only
C21_Witness ==
    /\ op = "process" /\ arg = "financial"
    /\ detectors.cpu.is_trained
    /\ detectors.cpu.anomaly_count = 1
    /\ detectors.cpu.total_points >= MinPoints
    /\ detectors.cpu.detector.threshold \in Thresholds
    /\ ~detectors.financial.is_trained
    /\ ~detectors.financial.processor.fitted
    /\ detectors.financial.anomaly_count = 0
    /\ detectors.financial.total_points = Len(detectors.financial.data_buffer)
    /\ detectors.financial.total_points = RegStreamLen("financial")
    /\ detectors.financial.detector.threshold = <<5, 2>>


\* ===================================================================
\* One client of GET /api/stream/anomalies and the process calls that push
\* events while it reads (SpecSse).  sse_events is the deque; obj holds the
\* locals of the client's generator, history what it has yielded, calls
\* the events appended since it connected.
\* ===================================================================

\* Anomaly verdicts the run explores: two events each
MaxAnomalies == 3

SseSources == {"CPU_Usage", "Financial_Data"}

\* request.args.get('source'): no filter, or a source name
SourceFilters == {"", "CPU_Usage"}

\* the events of the n-th anomaly verdict, of create_alert and of process
AnomalyEvents(source, n) ==
    <<[type |-> "alert", source |-> source, value |-> R(n)],
      [type |-> "anomaly", source |-> source, value |-> R(n), score |-> R(5)]>>

SseInit ==
    /\ sse_events = <<>>
    /\ obj = [connected |-> FALSE, source_filter |-> "", idx |-> 0]
    /\ history = <<>>
    /\ calls = <<>>
    /\ data_points = <<>>
    /\ cls = "stream_anomalies"
    /\ ret = NoVerdict
    /\ op = "init"
    /\ arg = <<>>
    /\ detectors = <<>>
    /\ threads = <<>>
    /\ stream_indices = <<>>
    /\ det = NoVerdict

sseFrame == <<cls, arg, detectors, threads, stream_indices, det>>

\* process on an anomaly: store_data_point, create_alert, sse_events.append
Sse_Anomaly(source) ==
    /\ Len(data_points) < MaxAnomalies
    /\ \E events \in {AnomalyEvents(source, Len(data_points) + 1)} :
         /\ sse_events' = AppendAll(sse_events, events, SseEventsMax)
         /\ calls' = IF obj.connected THEN calls \o events ELSE calls
         /\ data_points' = Append(data_points,
                                  [source |-> source, value |-> events[1].value,
                                   is_anomaly |-> 1, score |-> R(5)])
    /\ op' = "process"
    /\ ret' = NoVerdict
    /\ UNCHANGED <<obj, history, sseFrame>>

\* stream_anomalies: source_filter = request.args.get('source'); idx = 0
Sse_Connect(source_filter) ==
    /\ ~obj.connected
    /\ obj' = [connected |-> TRUE, source_filter |-> source_filter, idx |-> 0]
    /\ op' = "connect"
    /\ ret' = NoVerdict
    /\ UNCHANGED <<sse_events, history, calls, data_points, sseFrame>>

\* One turn of generate's loop: the event at idx is yielded, or passed over
\* for its source, or there is none and the generator sleeps.
Sse_Step ==
    /\ obj.connected
    /\ IF obj.idx < Len(sse_events)
       THEN /\ obj' = [obj EXCEPT !.idx = @ + 1]
            /\ IF /\ obj.source_filter # ""
                  /\ sse_events[obj.idx + 1].source # obj.source_filter
               THEN /\ op' = "continue"
                    /\ ret' = NoVerdict
                    /\ history' = history
               ELSE /\ op' = "yield"
                    /\ ret' = sse_events[obj.idx + 1]
                    /\ history' = Append(history, sse_events[obj.idx + 1])
       ELSE /\ op' = "sleep"
            /\ ret' = NoVerdict
            /\ UNCHANGED <<obj, history>>
    /\ UNCHANGED <<sse_events, calls, data_points, sseFrame>>

SseNext ==
    \/ \E source \in SseSources : Sse_Anomaly(source)
    \/ \E source_filter \in SourceFilters : Sse_Connect(source_filter)
    \/ Sse_Step

\* the generator runs as long as the client stays connected
SpecSse == SseInit /\ [][SseNext]_vars /\ WF_vars(Sse_Step)

\* the events appended since the client connected that pass its filter, and
\* those of the events yielded that were appended since it connected
Matches(e) == obj.source_filter = "" \/ e.source = obj.source_filter
Logged(e) == \E i \in 1..Len(calls) : calls[i] = e
Expected == SelectSeq(calls, Matches)
Yielded == SelectSeq(history, Logged)
IsPrefix(a, b) == Len(a) <= Len(b) /\ a = SubSeq(b, 1, Len(a))

\* C29: every event appended to sse_events after the client connected, and
\* matching its source filter, is eventually yielded to it exactly once
\* and in append order, however many events the stream has.
C29_EveryEventYieldedInOrder ==
    /\ [](IsPrefix(Yielded, Expected))
    /\ []<>(Yielded = Expected)

\* C29 for as long as no more events were appended than the deque holds
C29_InOrderUntilDequeIsFull ==
    2 * Len(data_points) <= SseEventsMax => IsPrefix(Yielded, Expected)

====
